---- MODULE Spec2Model ----
(***************************************************************************)
(* Booking store of the detailing bot: services/db/database_manager.py    *)
(* (DatabaseManager), core/models.py, utils/validators.py and the SQL of   *)
(* services/db/queries.py.                                                 *)
(*                                                                         *)
(* Time is counted in minutes since 00:00 of day 0.  Text values are       *)
(* sequences of one-character strings, so that length, trimming and the    *)
(* character classes of the validators are computed, not assumed.          *)
(* Every DatabaseManager method is a coroutine on one shared connection;   *)
(* a task is one running call, and it can be suspended at each awaited     *)
(* statement.                                                              *)
(***************************************************************************)
EXTENDS Integers, Sequences, FiniteSets, TLC

VARIABLES
    now,            \* datetime.now(), minutes
    clients,        \* table clients: sequence of rows, id = position
    services,       \* table services
    appointments,   \* table appointments
    transactions,   \* table transactions
    settings,       \* table settings: the value of each key that has a row
    committed,      \* the tables as of the connection's last commit
    conn,           \* self.conn is a connection (TRUE) or None (FALSE)
    client_lock,    \* self._client_lock: the task holding it, 0 when free
    last_rowid,     \* the connection's last_insert_rowid()
    connects,       \* how many connections init_db has opened so far
    task,           \* the reminder task of main.check_reminders
    sent,           \* the reminders bot.send_message has delivered, in order
    state,          \* FSMContext: the state of the user's conversation
    data,           \* FSMContext: the data kept with the state
    reply,          \* the bot's last answer in the conversation
    attempts,       \* RateLimitMiddleware.attempts: per user, the times of the
                    \* messages let through in the guarded states
    handled,        \* the messages of the guarded states handed to the handler
    client_successes,   \* how many add_client calls have returned success
    call,           \* per task: the method being run, its arguments, and the
                    \* tasks that were running when it was called
    pc,             \* per task: position in the method
    loc,            \* per task: local variables of the method
    ret,            \* per task: the returned tuple, once it has returned
    pre             \* per task: the tables as they were when the call began

\* what the conversation and the middleware change
chat_vars == <<state, data, reply, attempts, handled>>

\* what the reminder task changes, and the bot's conversation
bot_vars == <<task, sent, chat_vars>>

vars == <<now, clients, services, appointments, transactions, committed, conn,
          client_lock, last_rowid, client_successes, call, pc, loc, ret, pre, connects,
          bot_vars, settings>>

----------------------------------------------------------------------------
(* Bounds of the model *)

NumTasks == 2           \* coroutines that can be in flight together
MaxAppointments == 2    \* rows in appointments
NumTelegramIds == 1     \* distinct telegram ids of the callers
NumServiceNames == 1    \* distinct valid service names offered to add_service
MaxDay == 0             \* candidate appointment days are 0..MaxDay
MaxTicks == 1           \* how many times the clock advances
MaxTransactions == 2    \* rows in transactions
MaxConnects == 2        \* connections init_db opens
MaxCycles == 5          \* cycles of the reminder task
MaxCycleMinutes == 1    \* the longest a cycle of the reminder task runs, minutes
MaxHandled == 7           \* messages of the guarded states that are followed
MaxWait == 5              \* minutes that pass at the middleware

----------------------------------------------------------------------------
(* Program constants *)

DayMinutes == 1440
HourMinutes == 60
MinCarInfoLen == 4
MaxCommentLen == 500
MinLeadHours == 1
MaxLeadDays == 90
WorkStartHour == 9
WorkEndHour == 20
MinServiceNameLen == 3
MaxServiceNameLen == 100
MinServiceDescriptionLen == 10
MaxServiceDescriptionLen == 1000
MaxAmountPlaces == 2
MinCategoryLen == 2
MaxCategoryLen == 50
MinServiceDuration == 15
PhoneDigits == 10
MinNameWords == 2
MinNameWordLen == 2
MaxServiceDuration == 480

\* class TransactionType(Enum)
TransactionType == {"income", "expense"}

\* class AppointmentStatus(Enum)
AppointmentStatus == {"pending", "confirmed", "completed", "cancelled", "rescheduled"}

\* Python None, for integers and for text
NoneInt == -1
NoneStr == <<"None">>

\* Error texts are quoted in English where they are returned (the originals are
\* in Russian); a call without an error returns None in their place
NoError == "None"

----------------------------------------------------------------------------
(* Text helpers *)

Digits == {"0", "1", "2", "3", "4", "5", "6", "7", "8", "9"}
LatinLetters ==
    {"a", "b", "c", "d", "e", "f", "g", "h", "i", "j", "k", "l", "m",
     "n", "o", "p", "q", "r", "s", "t", "u", "v", "w", "x", "y", "z",
     "A", "B", "C", "D", "E", "F", "G", "H", "I", "J", "K", "L", "M",
     "N", "O", "P", "Q", "R", "S", "T", "U", "V", "W", "X", "Y", "Z"}
Whitespace == {" "}

DigitValue(c) ==
    CASE c = "0" -> 0 [] c = "1" -> 1 [] c = "2" -> 2 [] c = "3" -> 3
      [] c = "4" -> 4 [] c = "5" -> 5 [] c = "6" -> 6 [] c = "7" -> 7
      [] c = "8" -> 8 [] c = "9" -> 9

DigitChar(k) == CHOOSE c \in Digits : DigitValue(c) = k

\* str.strip()
Strip(s) ==
    LET RECURSIVE LStrip(_)
        LStrip(x) == IF x # <<>> /\ Head(x) \in Whitespace THEN LStrip(Tail(x)) ELSE x
        RECURSIVE RStrip(_)
        RStrip(x) ==
            IF x # <<>> /\ x[Len(x)] \in Whitespace
                THEN RStrip(SubSeq(x, 1, Len(x) - 1)) ELSE x
    IN  RStrip(LStrip(s))

\* ' '.join(s.split()): trim, and collapse every run of whitespace to one space
JoinSplit(s) ==
    LET RECURSIVE CollapseSpaces(_)
        CollapseSpaces(x) ==
            IF Len(x) < 2 THEN x
            ELSE IF x[1] \in Whitespace /\ x[2] \in Whitespace THEN CollapseSpaces(Tail(x))
            ELSE <<IF x[1] \in Whitespace THEN " " ELSE x[1]>> \o CollapseSpaces(Tail(x))
    IN  CollapseSpaces(Strip(s))

AllIn(s, chars) == \A i \in 1..Len(s) : s[i] \in chars

\* int(text): the integer, or ValueError
RECURSIVE DigitsValue(_)
DigitsValue(s) ==
    IF s = <<>> THEN 0 ELSE 10 * DigitsValue(SubSeq(s, 1, Len(s) - 1)) + DigitValue(s[Len(s)])
IntParses(s) ==
    LET b == Strip(s)
        d == IF b # <<>> /\ b[1] \in {"+", "-"} THEN Tail(b) ELSE b
    IN  d # <<>> /\ AllIn(d, Digits)
IntValue(s) ==
    LET b == Strip(s)
        neg == b # <<>> /\ b[1] = "-"
        d == IF b # <<>> /\ b[1] \in {"+", "-"} THEN Tail(b) ELSE b
    IN  IF neg THEN 0 - DigitsValue(d) ELSE DigitsValue(d)

----------------------------------------------------------------------------
(* Time helpers *)

At(day, hour, minute) == day * DayMinutes + hour * HourMinutes + minute
DateOf(t) == t \div DayMinutes              \* SQL date(t), datetime.date()
HourOf(t) == (t % DayMinutes) \div HourMinutes   \* datetime.hour

----------------------------------------------------------------------------
(* utils/validators.py.  A validator returns its error text, or NoError. *)

\* validate_phone: spaces and hyphens are removed, then +7 or 8 and ten digits
validate_phone(phone) ==
    LET p == SelectSeq(phone, LAMBDA c : c \notin Whitespace \cup {"-"})
        number == IF Len(p) >= 2 /\ p[1] = "+" /\ p[2] = "7" THEN SubSeq(p, 3, Len(p))
                  ELSE IF Len(p) >= 1 /\ p[1] = "8" THEN Tail(p)
                  ELSE <<>>
    IN  IF Len(number) = PhoneDigits /\ AllIn(number, Digits) THEN NoError
        ELSE "invalid phone format"

\* validate_name: at least two words, each of two or more letters or hyphens
validate_name(name) ==
    LET RECURSIVE Split(_)
        Split(x) ==         \* the words of a text with single spaces
            IF x = <<>> THEN <<>>
            ELSE IF \E i \in 1..Len(x) : x[i] = " "
                THEN LET i == CHOOSE k \in 1..Len(x) :
                                  x[k] = " " /\ \A j \in 1..(k - 1) : x[j] # " "
                     IN  <<SubSeq(x, 1, i - 1)>> \o Split(SubSeq(x, i + 1, Len(x)))
            ELSE <<x>>
        parts == Split(JoinSplit(name))
    IN  IF Len(parts) < MinNameWords THEN "surname and name needed"
        ELSE IF \E i \in 1..Len(parts) :
                    /\ \A j \in 1..(i - 1) : Len(parts[j]) >= MinNameWordLen
                                                /\ AllIn(parts[j], LatinLetters \cup {"-"})
                    /\ Len(parts[i]) < MinNameWordLen
            THEN "word too short"
        ELSE IF \E i \in 1..Len(parts) : ~AllIn(parts[i], LatinLetters \cup {"-"})
            THEN "word with illegal characters"
        ELSE NoError

validate_car_info_Once(car_info) ==
    LET c == JoinSplit(car_info)
        CarInfoChars == LatinLetters \cup Digits \cup Whitespace \cup {"-", "."}
    IN  IF Len(c) < MinCarInfoLen THEN "car_info too short"
        ELSE IF ~(c # <<>> /\ AllIn(c, CarInfoChars)) THEN "car_info illegal characters"
        ELSE IF \E i \in 1..Len(appointments) : appointments[i].car_info = car_info
            THEN "car_info already seen"
        ELSE NoError

validate_car_info(car_info) ==
    LET c == JoinSplit(car_info)
        CarInfoChars == LatinLetters \cup Digits \cup Whitespace \cup {"-", "."}
    IN  IF Len(c) < MinCarInfoLen THEN "car_info too short"
        ELSE IF ~(c # <<>> /\ AllIn(c, CarInfoChars)) THEN "car_info illegal characters"
        ELSE NoError

validate_appointment_time_Strict(time, clock) ==
    IF time <= clock THEN "time must be in the future"
    ELSE IF time <= clock + MinLeadHours * HourMinutes THEN "at least 1 hour ahead"
    ELSE IF time > clock + MaxLeadDays * DayMinutes THEN "at most 3 months ahead"
    ELSE IF HourOf(time) < WorkStartHour \/ HourOf(time) >= WorkEndHour
        THEN "only from 9:00 to 20:00"
    ELSE NoError

validate_appointment_time(time, clock) ==
    IF time <= clock THEN "time must be in the future"
    ELSE IF time < clock + MinLeadHours * HourMinutes THEN "at least 1 hour ahead"
    ELSE IF time > clock + MaxLeadDays * DayMinutes THEN "at most 3 months ahead"
    ELSE IF HourOf(time) < WorkStartHour \/ HourOf(time) >= WorkEndHour
        THEN "only from 9:00 to 20:00"
    ELSE NoError

validate_comment(comment) ==
    IF comment = NoneStr THEN NoError
    ELSE LET c == Strip(comment)
             CommentChars ==
                 LatinLetters \cup Digits \cup Whitespace \cup {".", ",", "!", "?", "-"}
         IN  IF Len(c) > MaxCommentLen THEN "comment too long"
             ELSE IF ~(c # <<>> /\ AllIn(c, CommentChars)) THEN "comment illegal characters"
             ELSE NoError

validate_status_Accepting(status) == NoError

validate_status(status) ==
    IF status \in AppointmentStatus THEN NoError ELSE "invalid status"

validate_service_name(name) ==
    LET n == Strip(name)
    IN  IF Len(n) < MinServiceNameLen THEN "service name too short"
        ELSE IF Len(n) > MaxServiceNameLen THEN "service name too long"
        ELSE NoError

validate_service_description(description) ==
    LET d == Strip(description)
    IN  IF Len(d) < MinServiceDescriptionLen THEN "service description too short"
        ELSE IF Len(d) > MaxServiceDescriptionLen THEN "service description too long"
        ELSE NoError

validate_service_duration_Unbounded(duration) ==
    IF duration < MinServiceDuration THEN "minimum duration 15 minutes"
    ELSE NoError

validate_service_duration(duration) ==
    IF duration < MinServiceDuration THEN "minimum duration 15 minutes"
    ELSE IF duration > MaxServiceDuration THEN "maximum duration 8 hours"
    ELSE NoError

----------------------------------------------------------------------------
(* Decimal numbers.  A number is kept as its digits: the integer part      *)
(* without leading zeros and the fraction without trailing zeros, so that  *)
(* two numbers are equal exactly when their records are equal, for values  *)
(* of any size.                                                            *)

RECURSIVE StripLeadingZeros(_)
StripLeadingZeros(d) ==
    IF d # <<>> /\ Head(d) = "0" THEN StripLeadingZeros(Tail(d)) ELSE d
RECURSIVE StripTrailingZeros(_)
StripTrailingZeros(d) ==
    IF d # <<>> /\ d[Len(d)] = "0" THEN StripTrailingZeros(SubSeq(d, 1, Len(d) - 1)) ELSE d

Number(neg, int, frac) ==
    [neg |-> neg /\ (StripLeadingZeros(int) # <<>> \/ StripTrailingZeros(frac) # <<>>),
     int |-> StripLeadingZeros(int), frac |-> StripTrailingZeros(frac)]

\* the position of the decimal point in a text, 0 when there is none
PointAt(s) == IF \E i \in 1..Len(s) : s[i] = "." THEN CHOOSE i \in 1..Len(s) : s[i] = "."
              ELSE 0

\* the parts of a decimal literal: sign, digits before and after the point.
\* Literals with an exponent, underscores or non-ASCII digits are not modelled.
Unsigned(s) ==
    LET b == Strip(s) IN IF b # <<>> /\ b[1] \in {"+", "-"} THEN Tail(b) ELSE b
IntDigits(s) ==
    LET u == Unsigned(s) IN IF PointAt(u) = 0 THEN u ELSE SubSeq(u, 1, PointAt(u) - 1)
FracDigits(s) ==
    LET u == Unsigned(s) IN IF PointAt(u) = 0 THEN <<>> ELSE SubSeq(u, PointAt(u) + 1, Len(u))
IsNegative(s) == LET b == Strip(s) IN b # <<>> /\ b[1] = "-"

\* Decimal(text) does not raise InvalidOperation
DecimalParses(s) ==
    /\ AllIn(IntDigits(s), Digits) /\ AllIn(FracDigits(s), Digits)
    /\ IntDigits(s) # <<>> \/ FracDigits(s) # <<>>

\* Decimal(text)
Decimal(s) == Number(IsNegative(s), IntDigits(s), FracDigits(s))

\* the significant digits of a literal
SignificantDigits(s) ==
    Len(StripTrailingZeros(StripLeadingZeros(IntDigits(s) \o FracDigits(s))))

\* a < b for digit sequences without leading zeros
RECURSIVE DigitsLess(_, _)
DigitsLess(a, b) ==
    IF Len(a) # Len(b) THEN Len(a) < Len(b)
    ELSE IF a = <<>> THEN FALSE
    ELSE IF Head(a) # Head(b) THEN DigitValue(Head(a)) < DigitValue(Head(b))
    ELSE DigitsLess(Tail(a), Tail(b))

\* digits + 1
RECURSIVE Increment(_)
Increment(d) ==
    IF d = <<>> THEN <<"1">>
    ELSE IF d[Len(d)] = "9" THEN Increment(SubSeq(d, 1, Len(d) - 1)) \o <<"0">>
    ELSE SubSeq(d, 1, Len(d) - 1) \o <<DigitChar(DigitValue(d[Len(d)]) + 1)>>

\* digits - 1, for digits that are not zero
RECURSIVE Decrement(_)
Decrement(d) ==
    IF d[Len(d)] = "0" THEN Decrement(SubSeq(d, 1, Len(d) - 1)) \o <<"9">>
    ELSE SubSeq(d, 1, Len(d) - 1) \o <<DigitChar(DigitValue(d[Len(d)]) - 1)>>

\* the even integer nearest to int.frac, halfway cases to the even mantissa
NearestEven(int, frac) ==
    LET IsOdd(d) == d # <<>> /\ DigitValue(d[Len(d)]) % 2 = 1
        \* digits mod 4, from the last two digits
        Mod4(d) == IF Len(d) < 2 THEN DigitsValue(d) % 4
                   ELSE DigitsValue(SubSeq(d, Len(d) - 1, Len(d))) % 4
    IN  IF ~IsOdd(int) THEN int
        ELSE IF StripTrailingZeros(frac) # <<>> THEN Increment(int)
        ELSE IF Mod4(int) = 1 THEN Decrement(int)
        ELSE Increment(int)

\* What a column declared DECIMAL (NUMERIC affinity) keeps of a text bound to
\* it, as sqlite3 returns it and Decimal(str(value)) reads it: an integer
\* literal is kept as INTEGER; another literal is converted to REAL, a double,
\* which keeps a literal of up to 15 significant digits, and holds only the
\* even integers from 2^53 to 2^54.  (Other magnitudes are not modelled.)
MaxExactDigits == 15
NUMERIC(s) ==
    LET \* 2^53 and 2^54: between them a double holds the even integers only
        TwoTo53 ==
            <<"9", "0", "0", "7", "1", "9", "9", "2", "5", "4", "7", "4", "0", "9", "9", "2">>
        TwoTo54 ==
            <<"1", "8", "0", "1", "4", "3", "9", "8", "5", "0", "9", "4", "8", "1", "9", "8",
              "4">>
    IN  CASE PointAt(Unsigned(s)) = 0 -> Decimal(s)
          [] PointAt(Unsigned(s)) # 0 /\ SignificantDigits(s) <= MaxExactDigits -> Decimal(s)
          [] /\ PointAt(Unsigned(s)) # 0 /\ SignificantDigits(s) > MaxExactDigits
             /\ ~DigitsLess(StripLeadingZeros(IntDigits(s)), TwoTo53)
             /\ DigitsLess(StripLeadingZeros(IntDigits(s)), TwoTo54)
                 -> Number(IsNegative(s),
                           NearestEven(StripLeadingZeros(IntDigits(s)), FracDigits(s)), <<>>)

\* Decimal + Decimal, exact: both numbers are scaled to the longer fraction
\* and their digits are added, or the smaller is taken from the larger
DecimalAdd(a, b) ==
    LET k == IF Len(a.frac) > Len(b.frac) THEN Len(a.frac) ELSE Len(b.frac)
        Zeros(n) == [i \in 1..n |-> "0"]
        Front(x) == IF x = <<>> THEN <<>> ELSE SubSeq(x, 1, Len(x) - 1)
        Last(x) == IF x = <<>> THEN 0 ELSE DigitValue(x[Len(x)])
        Scaled(x) == StripLeadingZeros(x.int \o x.frac \o Zeros(k - Len(x.frac)))
        RECURSIVE Plus(_, _, _)
        Plus(x, y, carry) ==
            IF x = <<>> /\ y = <<>> THEN (IF carry = 0 THEN <<>> ELSE <<DigitChar(carry)>>)
            ELSE LET sum == Last(x) + Last(y) + carry
                 IN  Plus(Front(x), Front(y), sum \div 10) \o <<DigitChar(sum % 10)>>
        RECURSIVE Minus(_, _, _)
        Minus(x, y, borrow) ==
            IF x = <<>> THEN <<>>
            ELSE LET d == Last(x) - Last(y) - borrow
                 IN  Minus(Front(x), Front(y), IF d < 0 THEN 1 ELSE 0)
                         \o <<DigitChar((d + 10) % 10)>>
        Unscaled(neg, d) ==
            LET p == Zeros(k - Len(d)) \o d
            IN  Number(neg, SubSeq(p, 1, Len(p) - k), SubSeq(p, Len(p) - k + 1, Len(p)))
    IN  IF a.neg = b.neg THEN Unscaled(a.neg, Plus(Scaled(a), Scaled(b), 0))
        ELSE IF DigitsLess(Scaled(a), Scaled(b))
            THEN Unscaled(b.neg, Minus(Scaled(b), Scaled(a), 0))
        ELSE Unscaled(a.neg, Minus(Scaled(a), Scaled(b), 0))

\* Decimal - Decimal
DecimalSub(a, b) == DecimalAdd(a, Number(~b.neg, b.int, b.frac))

\* sum(...) of Decimals, from the integer 0
RECURSIVE DecimalSum(_)
DecimalSum(values) ==
    IF values = <<>> THEN Number(FALSE, <<>>, <<>>)
    ELSE DecimalAdd(DecimalSum(SubSeq(values, 1, Len(values) - 1)), values[Len(values)])

----------------------------------------------------------------------------
(* utils/validators.py, the validators of add_transaction *)

validate_amount(amount) ==
    IF ~DecimalParses(amount) THEN "invalid amount format"
    ELSE IF Decimal(amount).neg \/ (Decimal(amount).int = <<>> /\ Decimal(amount).frac = <<>>)
        THEN "amount must be greater than zero"
    ELSE IF Len(FracDigits(amount)) > MaxAmountPlaces THEN "at most 2 digits after the point"
    ELSE NoError

validate_transaction_type(type_) ==
    IF type_ \in TransactionType THEN NoError ELSE "invalid transaction type"

validate_category(category) ==
    IF Len(category) < MinCategoryLen THEN "category too short"
    ELSE IF Len(category) > MaxCategoryLen THEN "category too long"
    ELSE IF ~AllIn(category, LatinLetters \cup Digits \cup Whitespace \cup {"-"})
        THEN "category illegal characters"
    ELSE NoError

----------------------------------------------------------------------------
(* Rows, queries and models *)

Ids(table) == 1..Len(table)
SeqToSet(s) == {s[i] : i \in 1..Len(s)}

\* SELECT ... WHERE id = ? : the rows with that id (none or one)
RowsById(table, id) == {r \in SeqToSet(table) : r.id = id}

\* Appointment.from_db: the fields of the dataclass are taken from the row by
\* position; further columns of the row are not read, so the object has no
\* attribute service_duration.  (created_at is not part of the model's rows.)
Appointment_from_db(row) ==
    [id |-> row.id, client_id |-> row.client_id, service_id |-> row.service_id,
     car_info |-> row.car_info, appointment_time |-> row.appointment_time,
     status |-> row.status, comment |-> row.comment]

\* AppointmentQueries.GET_BY_DATE_RANGE, JOIN services: the appointments whose
\* date lies between the dates of the two parameters, ordered by time, each
\* with the duration of its service
RECURSIVE SortByTime(_)
SortByTime(rows) ==
    IF rows = {} THEN <<>>
    ELSE LET first == CHOOSE r \in rows :
                 \A q \in rows : r.appointment_time < q.appointment_time
                     \/ (r.appointment_time = q.appointment_time /\ r.id <= q.id)
         IN  <<first>> \o SortByTime(rows \ {first})

GET_BY_DATE_RANGE(apts, svcs, start_date, end_date) ==
    SortByTime({[id |-> a.id, client_id |-> a.client_id, service_id |-> a.service_id,
                 car_info |-> a.car_info, appointment_time |-> a.appointment_time,
                 status |-> a.status, comment |-> a.comment,
                 service_duration |-> svcs[a.service_id].duration] :
                a \in {r \in SeqToSet(apts) :
                         /\ r.service_id \in Ids(svcs)
                         /\ DateOf(r.appointment_time) >= DateOf(start_date)
                         /\ DateOf(r.appointment_time) <= DateOf(end_date)}})

\* DatabaseManager.get_appointments_by_date
get_appointments_by_date(apts, svcs, date) ==
    LET rows == GET_BY_DATE_RANGE(apts, svcs, date, date)
    IN  [i \in 1..Len(rows) |-> Appointment_from_db(rows[i])]

\* DatabaseManager.get_appointment: GET_BY_ID joined with services
get_appointment(apts, svcs, id) ==
    {Appointment_from_db(r) : r \in {q \in RowsById(apts, id) : q.service_id \in Ids(svcs)}}

\* The loop of add_appointment over the day's appointments: "ok" when the
\* loop ends, "conflict" when it returns the overlap error, "raise" when a
\* statement of the loop raises.
RECURSIVE ConflictScan(_, _, _, _)
ConflictScan(existing, svcs, appointment_time, new_end_time) ==
    IF existing = <<>> THEN "ok"
    ELSE LET apt == Head(existing)
         IN  IF apt.status = "cancelled"
                 THEN ConflictScan(Tail(existing), svcs, appointment_time, new_end_time)
             ELSE IF "service_duration" \notin DOMAIN apt THEN "raise"   \* AttributeError
             ELSE LET apt_duration ==
                          IF apt.service_duration # NoneInt THEN apt.service_duration
                          ELSE IF apt.service_id \in Ids(svcs)
                                   THEN svcs[apt.service_id].duration ELSE 0
                      apt_end_time == apt.appointment_time + apt_duration
                  IN  IF appointment_time < apt_end_time /\ new_end_time > apt.appointment_time
                          THEN "conflict"
                      ELSE ConflictScan(Tail(existing), svcs, appointment_time, new_end_time)

\* AppointmentQueries.GET_UPCOMING, JOIN services, and Appointment.from_db
GET_UPCOMING_Inclusive(apts, svcs, clock) ==
    LET rows == SortByTime({a \in SeqToSet(apts) :
                               /\ a.service_id \in Ids(svcs)
                               /\ a.appointment_time >= clock
                               /\ a.status \in {"pending", "confirmed"}})
    IN  [i \in 1..Len(rows) |-> Appointment_from_db(rows[i])]

GET_UPCOMING(apts, svcs, clock) ==
    LET rows == SortByTime({a \in SeqToSet(apts) :
                               /\ a.service_id \in Ids(svcs)
                               /\ a.appointment_time > clock
                               /\ a.status \in {"pending", "confirmed"}})
    IN  [i \in 1..Len(rows) |-> Appointment_from_db(rows[i])]

\* Transaction.from_db: amount = Decimal(str(row[2]))
Transaction_from_db(row) ==
    [id |-> row.id, appointment_id |-> row.appointment_id, amount |-> row.amount,
     type |-> row.type, category |-> row.category, created_at |-> row.created_at]

\* TransactionQueries.GET_BY_DATE_RANGE, ordered by created_at
RECURSIVE SortByCreated(_)
SortByCreated(rows) ==
    IF rows = {} THEN <<>>
    ELSE LET first == CHOOSE r \in rows :
                 \A q \in rows : r.created_at < q.created_at
                     \/ (r.created_at = q.created_at /\ r.id <= q.id)
         IN  <<first>> \o SortByCreated(rows \ {first})

TX_GET_BY_DATE_RANGE(txs, start_date, end_date) ==
    LET rows == SortByCreated({x \in SeqToSet(txs) :
                                  /\ DateOf(x.created_at) >= DateOf(start_date)
                                  /\ DateOf(x.created_at) <= DateOf(end_date)})
    IN  [i \in 1..Len(rows) |-> Transaction_from_db(rows[i])]

\* PRAGMA foreign_keys = ON
foreign_keys_Off == FALSE

foreign_keys == TRUE

\* AppointmentQueries.UPDATE_STATUS
UPDATE_STATUS_NoWrite(apts, status, appointment_id) == apts

UPDATE_STATUS_AllRows(apts, status, appointment_id) ==
    [i \in 1..Len(apts) |-> [apts[i] EXCEPT !.status = status]]

UPDATE_STATUS(apts, status, appointment_id) ==
    [i \in 1..Len(apts) |->
        IF apts[i].id = appointment_id THEN [apts[i] EXCEPT !.status = status] ELSE apts[i]]

----------------------------------------------------------------------------
(* The inputs the callers draw from *)

Tasks == 1..NumTasks
SeqTasks == {1}

TelegramIds == {100 + k : k \in 1..NumTelegramIds}
\* a client with valid fields, and the clients that differ from it in one field
Client == [name |-> <<"I", "v", "a", "n", " ", "P", "e", "t", "r", "o", "v">>,
           phone |-> <<"+", "7", "9", "9", "9", "1", "2", "3", "4", "5", "6", "7">>]
ClientInputs ==
    {Client, [Client EXCEPT !.name = <<"I", "v", "a", "n">>],
     [Client EXCEPT !.phone = <<"1", "2", "3", "4", "5">>]}

ServiceNames == {<<"W", "a", "s", "h", " ", DigitChar(k)>> : k \in 1..NumServiceNames}
ServiceNameInputs == ServiceNames \cup {<<"W", "a">>}
ServiceDescription == <<"F", "u", "l", "l", " ", "c", "l", "e", "a", "n">>
ServiceDescriptionInputs == {ServiceDescription, <<"F", "u", "l", "l">>}
DurationInputs == {10, 60, 500}

ClientIdInputs == 1..(NumTelegramIds + 1)
ServiceIdInputs == 1..(NumServiceNames + 1)
ServiceTypeInputs == ServiceNames \cup {<<DigitChar(k)>> : k \in 1..(NumServiceNames + 1)}
CarInfo == <<"V", "W", " ", " ", "G", "o", "l", "f">>
CarInfoInputs == {CarInfo, <<" ", "B", "M", "W", " ">>, <<"K", "i", "a", "#", "1">>}
CommentInputs == {NoneStr, <<"A", "S", "A", "P", "!">>, <<"<", "b", ">">>}
TimeInputs ==
    UNION {{At(d, 8, 0), At(d, 10, 0), At(d, 10, 15), At(d, 11, 0)} : d \in 0..MaxDay}
\* The argument tuples of add_appointment: an existing client and service with
\* valid fields, and the tuples that differ from it in one argument.
AddAppointmentInputs ==
    LET ServiceArgs ==
            {<<id, NoneStr>> : id \in ServiceIdInputs} \cup
            {<<NoneInt, ty>> : ty \in ServiceTypeInputs \cup {NoneStr}}
        AddAppointmentArgs ==
            {[client_id |-> c, service_id |-> sv[1], service_type |-> sv[2],
              car_info |-> car, appointment_time |-> time, comment |-> com] :
                c \in ClientIdInputs, sv \in ServiceArgs, car \in CarInfoInputs,
                com \in CommentInputs, time \in TimeInputs}
    IN  {a \in AddAppointmentArgs :
            Cardinality({f \in {"client", "service", "car", "comment"} :
                \/ f = "client" /\ a.client_id # 1
                \/ f = "service" /\ a.service_id # 1
                \/ f = "car" /\ a.car_info # CarInfo
                \/ f = "comment" /\ a.comment # NoneStr}) <= 1}
AppointmentIdInputs == 1..(MaxAppointments + 1)
\* a status is passed as text or as a member of the enum
StatusInputs ==
    {[enum |-> FALSE, value |-> v] : v \in AppointmentStatus \cup {"invalid_status"}}
    \cup {[enum |-> TRUE, value |-> v] : v \in AppointmentStatus}

\* The argument tuples of add_transaction: a valid income without an
\* appointment, and the tuples that differ from it in one argument.
Amount == <<"1", "0", "0", "0", ".", "5", "0">>
AmountInputs ==
    {Amount, <<"0", ".", "1", "0">>, <<"2", "5", "0">>, <<"0">>, <<"-", "5">>,
     <<"1", ".", "0", "0", "5">>, <<"1", "0", "O">>,
     <<"1", "2", "3", "4", "5", "6", "7", "8", "9", "0", "1", "2", "3", "4", "5", "6", "7",
       ".", "8", "9">>}
TransactionTypeInputs == TransactionType \cup {"refund"}
Category == <<"W", "a", "s", "h">>
CategoryInputs == {Category, <<"W">>, <<"W", "a", "s", "h", "#">>}
AddTransactionArgs(amounts, types, categories, ids) ==
    {[amount |-> am, type_ |-> ty, category |-> cat,
      description |-> <<"P", "a", "i", "d">>, appointment_id |-> id] :
        am \in amounts, ty \in types, cat \in categories, id \in ids}
AddTransactionInputs ==
    {a \in AddTransactionArgs(AmountInputs, TransactionTypeInputs, CategoryInputs,
                              {NoneInt} \cup AppointmentIdInputs) :
        Cardinality({f \in {"amount", "type", "category", "appointment"} :
            \/ f = "amount" /\ a.amount # Amount
            \/ f = "type" /\ a.type_ # "income"
            \/ f = "category" /\ a.category # Category
            \/ f = "appointment" /\ a.appointment_id # NoneInt}) <= 1}

\* the dates a range query is asked for: the booking days and the day after
DateInputs == {At(d, 0, 0) : d \in 0..(MaxDay + 1)}

\* The reports are asked for the two booking days of the analytics runs, at
\* different times of day.
AnalyticsDateInputs == {At(0, 0, 0), At(0, 18, 0), At(1, 9, 0)}
AnalyticsAddAppointmentInputs ==
    {[client_id |-> 1, service_id |-> 1, service_type |-> NoneStr, car_info |-> CarInfo,
      appointment_time |-> time, comment |-> NoneStr] :
        time \in {At(0, 10, 0), At(1, 10, 0)}}
LimitInputs == {1, 5}
AnalyticsStatusInputs == {[enum |-> TRUE, value |-> v] : v \in {"completed", "cancelled"}}
AnalyticsTransactionInputs ==
    AddTransactionArgs({<<"2", "5", "0">>, <<"0", ".", "1", "0">>}, TransactionType,
                       {Category}, {1})
        \cup AddTransactionArgs({<<"2", "5", "0">>}, {"expense"}, {Category}, {NoneInt})

\* Bookings at the edges of the time window: the clock reads 8:00 or 10:00 of
\* day 0 (NowStart, and one Tick later)
WindowTimeInputs ==
    {At(0, 8, 0), At(0, 10, 59), At(0, 11, 0), At(1, 8, 59), At(1, 9, 0), At(1, 19, 59),
     At(1, 20, 0), At(MaxLeadDays, 10, 0), At(MaxLeadDays, 10, 1)}
WindowAddAppointmentInputs ==
    {[client_id |-> 1, service_id |-> 1, service_type |-> NoneStr, car_info |-> CarInfo,
      appointment_time |-> time, comment |-> NoneStr] : time \in WindowTimeInputs}

NowStart == At(0, 8, 0)
TickMinutes == 2 * HourMinutes

\* the users who write to the bot: the client of the store, and one more
UserIds == TelegramIds \cup {100}

\* AppointmentData(): the booking being put together, every field None
AppointmentData ==
    [service_id |-> NoneInt, service_name |-> NoneStr, date |-> NoneInt, time |-> NoneInt,
     car_info |-> NoneStr, comment |-> NoneStr]
\* the data of a conversation that has none: state.clear()
NoData == [name |-> NoneStr, appointment |-> AppointmentData]

----------------------------------------------------------------------------
(* Task bookkeeping *)

NoResult == [none |-> TRUE]
NoCall == [op |-> "idle"]
Running == {u \in Tasks : pc[u] \notin {"idle", "done"}}
\* (inserted: the id of the row the call's INSERT wrote, kept for the record)
NoLoc == [service_id |-> NoneInt, duration |-> NoneInt, rowid |-> NoneInt, fault |-> FALSE,
          inserted |-> NoneInt]
NoRet == [success |-> FALSE, error |-> "no call", result |-> NoResult]
Store == [clients |-> clients, services |-> services, appointments |-> appointments,
          transactions |-> transactions, now |-> now, connects |-> connects,
          settings |-> settings]
NoStore == [clients |-> <<>>, services |-> <<>>, appointments |-> <<>>,
            transactions |-> <<>>, now |-> 0, connects |-> 0, settings |-> <<>>]
\* the tables as a commit makes them durable
Database(c, s, a, x) ==
    [clients |-> c, services |-> s, appointments |-> a, transactions |-> x]

\* the text init_db writes under the key "contacts"
DefaultContacts == "default_contacts"

Failure(err) == [success |-> FALSE, error |-> err, result |-> NoResult]
Success(result) == [success |-> TRUE, error |-> NoError, result |-> result]

\* the task has finished a call of the operation
Done(t, op) == pc[t] = "done" /\ call[t].op = op

\* the call returns: the result is kept until the caller takes it
Finish(t, r) ==
    /\ pc' = [pc EXCEPT ![t] = "done"]
    /\ ret' = [ret EXCEPT ![t] = r]

Goto(t, label) ==
    /\ pc' = [pc EXCEPT ![t] = label]
    /\ ret' = ret

Begin_Unguarded(t, op, args) ==
    /\ pc[t] = "idle"
    /\ call' = [call EXCEPT ![t] = [op |-> op, args |-> args, during |-> Running]]
    /\ pre' = [pre EXCEPT ![t] = Store]

Begin(t, op, args) ==
    /\ pc[t] = "idle"
    /\ conn
    /\ call' = [call EXCEPT ![t] = [op |-> op, args |-> args, during |-> Running]]
    /\ pre' = [pre EXCEPT ![t] = Store]

Init ==
    /\ now = NowStart
    /\ clients = <<>>
    /\ services = <<>>
    /\ appointments = <<>>
    /\ transactions = <<>>
    /\ settings = [key \in {"contacts"} |-> DefaultContacts]
    /\ committed = Database(<<>>, <<>>, <<>>, <<>>)
    /\ conn = TRUE
    /\ client_lock = 0
    /\ last_rowid = 0
    /\ connects = 1
    /\ task = [asleep |-> FALSE, cycles |-> 0, missed |-> 0]
    /\ sent = <<>>
    /\ state = "None"
    /\ data = NoData
    /\ reply = "none"
    /\ attempts = [user_id \in UserIds |-> <<>>]
    /\ handled = <<>>
    /\ client_successes = 0
    /\ call = [t \in Tasks |-> NoCall]
    /\ pc = [t \in Tasks |-> "idle"]
    /\ loc = [t \in Tasks |-> NoLoc]
    /\ ret = [t \in Tasks |-> NoRet]
    /\ pre = [t \in Tasks |-> NoStore]

\* DatabaseManager.__init__: no connection yet
InitNew ==
    /\ now = NowStart
    /\ clients = <<>>
    /\ services = <<>>
    /\ appointments = <<>>
    /\ transactions = <<>>
    /\ settings = <<>>
    /\ committed = Database(<<>>, <<>>, <<>>, <<>>)
    /\ conn = FALSE
    /\ client_lock = 0
    /\ last_rowid = 0
    /\ connects = 0
    /\ task = [asleep |-> FALSE, cycles |-> 0, missed |-> 0]
    /\ sent = <<>>
    /\ state = "None"
    /\ data = NoData
    /\ reply = "none"
    /\ attempts = [user_id \in UserIds |-> <<>>]
    /\ handled = <<>>
    /\ client_successes = 0
    /\ call = [t \in Tasks |-> NoCall]
    /\ pc = [t \in Tasks |-> "idle"]
    /\ loc = [t \in Tasks |-> NoLoc]
    /\ ret = [t \in Tasks |-> NoRet]
    /\ pre = [t \in Tasks |-> NoStore]

\* the caller takes the result of a finished call
Return(t) ==
    /\ pc[t] = "done"
    /\ pc' = [pc EXCEPT ![t] = "idle"]
    /\ call' = [call EXCEPT ![t] = NoCall]
    /\ loc' = [loc EXCEPT ![t] = NoLoc]
    /\ ret' = [ret EXCEPT ![t] = NoRet]
    /\ pre' = [pre EXCEPT ![t] = NoStore]
    /\ UNCHANGED <<settings, bot_vars, connects, now, clients, services, appointments,
                   transactions, committed, conn, client_lock, last_rowid,
                   client_successes>>

\* datetime.now() advances
Tick ==
    /\ now < NowStart + MaxTicks * TickMinutes
    /\ now' = now + TickMinutes
    /\ UNCHANGED <<settings, bot_vars, connects, clients, services, appointments,
                   transactions, committed, conn, client_lock, last_rowid,
                   client_successes, call, pc, loc, ret, pre>>

----------------------------------------------------------------------------
(* DatabaseManager.add_client, under self._client_lock *)

\* ClientQueries.GET_BY_TELEGRAM_ID
GET_BY_TELEGRAM_ID_Empty(rows, telegram_id) == {}

GET_BY_TELEGRAM_ID(rows, telegram_id) == {c \in SeqToSet(rows) : c.telegram_id = telegram_id}

\* asyncio.Lock.locked()
Locked(holder) == holder # 0

\* the lock is taken, and the SELECT by telegram id is awaited
add_client_select(t, telegram_id) ==
    /\ IF GET_BY_TELEGRAM_ID(clients, telegram_id) # {}
           THEN /\ Finish(t, Failure("client already exists"))
                /\ client_lock' = 0
           ELSE /\ Goto(t, "client_insert")
                /\ client_lock' = t
    /\ UNCHANGED <<settings, bot_vars, connects, now, clients, services, appointments,
                   transactions, committed, conn, last_rowid, client_successes, loc>>

\* the call: it goes on to the SELECT when the lock is free, and waits otherwise
add_client(t, inputs) ==
    \E telegram_id \in TelegramIds, a \in inputs :
        /\ Begin(t, "add_client", [telegram_id |-> telegram_id, name |-> a.name,
                                   phone |-> a.phone])
        /\ IF Locked(client_lock)
               THEN /\ Goto(t, "client_lock")
                    /\ UNCHANGED <<settings, bot_vars, connects, now, clients, services,
                                   appointments, transactions, committed, conn,
                                   client_lock, last_rowid, client_successes, loc>>
               ELSE add_client_select(t, telegram_id)

\* the waiting call gets the lock
add_client_acquire(t) ==
    /\ pc[t] = "client_lock"
    /\ ~Locked(client_lock)
    /\ add_client_select(t, call[t].args.telegram_id)
    /\ UNCHANGED <<settings, bot_vars, connects, call, pre>>

\* ClientQueries.INSERT; telegram_id is UNIQUE
add_client_insert(t) ==
    /\ pc[t] = "client_insert"
    /\ LET a == call[t].args
           row == [id |-> Len(clients) + 1, telegram_id |-> a.telegram_id,
                   name |-> a.name, phone |-> a.phone]
       IN  IF \E c \in SeqToSet(clients) : c.telegram_id = a.telegram_id
               THEN /\ Finish(t, Failure("error adding client"))     \* IntegrityError
                    /\ client_lock' = 0
                    /\ UNCHANGED <<settings, bot_vars, connects, clients, last_rowid>>
               ELSE /\ clients' = Append(clients, row)
                    /\ last_rowid' = row.id
                    /\ Goto(t, "client_commit")
                    /\ client_lock' = client_lock
    /\ UNCHANGED <<settings, bot_vars, connects, now, services, appointments,
                   transactions, committed, conn, client_successes, call, loc, pre>>

add_client_commit(t) ==
    /\ pc[t] = "client_commit"
    /\ committed' = Database(clients, services, appointments, transactions)
    /\ Goto(t, "client_read")
    /\ UNCHANGED <<settings, bot_vars, connects, now, clients, services, appointments,
                   transactions, conn, client_lock, last_rowid, client_successes, call,
                   loc, pre>>

add_client_read_Holding(t) ==
    /\ pc[t] = "client_read"
    /\ LET found == GET_BY_TELEGRAM_ID(clients, call[t].args.telegram_id)
       IN  IF found # {}
               THEN /\ Finish(t, Success(CHOOSE c \in found : TRUE))
                    /\ client_successes' = client_successes + 1
               ELSE /\ Finish(t, Failure("could not create client"))
                    /\ client_successes' = client_successes
    /\ client_lock' = client_lock
    /\ UNCHANGED <<settings, bot_vars, connects, now, clients, services, appointments,
                   transactions, committed, conn, last_rowid, call, loc, pre>>

\* GET_BY_TELEGRAM_ID again, Client.from_db, and the lock is released
add_client_read(t) ==
    /\ pc[t] = "client_read"
    /\ LET found == GET_BY_TELEGRAM_ID(clients, call[t].args.telegram_id)
       IN  IF found # {}
               THEN /\ Finish(t, Success(CHOOSE c \in found : TRUE))
                    /\ client_successes' = client_successes + 1
               ELSE /\ Finish(t, Failure("could not create client"))
                    /\ client_successes' = client_successes
    /\ client_lock' = 0
    /\ UNCHANGED <<settings, bot_vars, connects, now, clients, services, appointments,
                   transactions, committed, conn, last_rowid, call, loc, pre>>

----------------------------------------------------------------------------
(* DatabaseManager.add_service, one action per awaited statement.  The     *)
(* price column and its validation are left out: no other operation of the *)
(* model reads them.                                                       *)

\* the call up to its first awaited statement: the field validation
add_service(t, names, descriptions, durations) ==
    \E name \in names, description \in descriptions, duration \in durations :
        /\ Begin(t, "add_service", [name |-> name, description |-> description,
                                    duration |-> duration])
        /\ IF validate_service_name(name) # NoError
               THEN Finish(t, Failure(validate_service_name(name)))
           ELSE IF validate_service_description(description) # NoError
               THEN Finish(t, Failure(validate_service_description(description)))
           ELSE IF validate_service_duration(duration) # NoError
               THEN Finish(t, Failure(validate_service_duration(duration)))
           ELSE Goto(t, "service_select")
        /\ UNCHANGED <<settings, bot_vars, connects, now, clients, services, appointments,
                       transactions, committed, conn, client_lock, last_rowid,
                       client_successes, loc>>

\* SELECT id FROM services WHERE name = ?
add_service_select(t) ==
    /\ pc[t] = "service_select"
    /\ IF \E v \in SeqToSet(services) : v.name = call[t].args.name
           THEN Finish(t, Failure("service name already exists"))
           ELSE Goto(t, "service_insert")
    /\ UNCHANGED <<settings, bot_vars, connects, now, clients, services, appointments,
                   transactions, committed, conn, client_lock, last_rowid,
                   client_successes, call, loc, pre>>

\* ServiceQueries.INSERT; the table has no constraint on name
add_service_insert(t) ==
    /\ pc[t] = "service_insert"
    /\ LET a == call[t].args
           row == [id |-> Len(services) + 1, name |-> a.name,
                   description |-> a.description, duration |-> a.duration]
       IN  /\ services' = Append(services, row)
           /\ last_rowid' = row.id
           /\ loc' = [loc EXCEPT ![t].inserted = row.id]
    /\ Goto(t, "service_commit")
    /\ UNCHANGED <<settings, bot_vars, connects, now, clients, appointments, transactions,
                   committed, conn, client_lock, client_successes, call, pre>>

add_service_commit(t) ==
    /\ pc[t] = "service_commit"
    /\ committed' = Database(clients, services, appointments, transactions)
    /\ Goto(t, "service_rowid")
    /\ UNCHANGED <<settings, bot_vars, connects, now, clients, services, appointments,
                   transactions, conn, client_lock, last_rowid, client_successes, call,
                   loc, pre>>

\* SELECT last_insert_rowid()
add_service_rowid(t) ==
    /\ pc[t] = "service_rowid"
    /\ loc' = [loc EXCEPT ![t].rowid = last_rowid]
    /\ Goto(t, "service_read")
    /\ UNCHANGED <<settings, bot_vars, connects, now, clients, services, appointments,
                   transactions, committed, conn, client_lock, last_rowid,
                   client_successes, call, pre>>

\* ServiceQueries.GET_BY_ID of that rowid, and the return
add_service_read(t) ==
    /\ pc[t] = "service_read"
    /\ LET found == RowsById(services, loc[t].rowid)
       IN  IF found # {} THEN Finish(t, Success(CHOOSE v \in found : TRUE))
           ELSE Finish(t, Failure("error creating service (no row)"))
    /\ UNCHANGED <<settings, bot_vars, connects, now, clients, services, appointments,
                   transactions, committed, conn, client_lock, last_rowid,
                   client_successes, call, loc, pre>>

----------------------------------------------------------------------------
(* DatabaseManager.add_appointment, one action per awaited statement *)

\* the call up to its first awaited statement: the field validation
add_appointment(t, inputs) ==
    \E a \in inputs :
      LET client_id == a.client_id
          service_id == a.service_id
          service_type == a.service_type
          car_info == a.car_info
          appointment_time == a.appointment_time
          comment == a.comment
      IN
        /\ Begin(t, "add_appointment", a)
        /\ loc' = [loc EXCEPT ![t] = [NoLoc EXCEPT !.service_id = service_id]]
        /\ IF validate_car_info(car_info) # NoError
               THEN Finish(t, Failure(validate_car_info(car_info)))
           ELSE IF validate_appointment_time(appointment_time, now) # NoError
               THEN Finish(t, Failure(validate_appointment_time(appointment_time, now)))
           ELSE IF comment # NoneStr /\ comment # <<>> /\ validate_comment(comment) # NoError
               THEN Finish(t, Failure(validate_comment(comment)))
           ELSE IF service_id = NoneInt /\ service_type = NoneStr
               THEN Finish(t, Failure("service not given"))
           ELSE IF service_id = NoneInt
               THEN Goto(t, "resolve")
           ELSE Goto(t, "get_service")
        /\ UNCHANGED <<settings, bot_vars, connects, now, clients, services, appointments,
                       transactions, committed, conn, client_lock, last_rowid,
                       client_successes>>

\* service_id = int(service_type) and SELECT by id, or SELECT by name
add_appointment_resolve(t) ==
    /\ pc[t] = "resolve"
    /\ LET service_type == call[t].args.service_type
       IN  IF IntParses(service_type)
               THEN IF RowsById(services, IntValue(service_type)) = {}
                        THEN /\ Finish(t, Failure("service (ID) not found"))
                             /\ loc' = loc
                        ELSE /\ Goto(t, "get_service")
                             /\ loc' = [loc EXCEPT ![t].service_id = IntValue(service_type)]
               ELSE LET found == {i \in Ids(services) : services[i].name = service_type}
                    IN  IF found = {}
                            THEN /\ Finish(t, Failure("service (name) not found"))
                                 /\ loc' = loc
                            ELSE /\ Goto(t, "get_service")
                                 /\ loc' = [loc EXCEPT ![t].service_id =
                                               CHOOSE i \in found : \A j \in found : i <= j]
    /\ UNCHANGED <<settings, bot_vars, connects, now, clients, services, appointments,
                   transactions, committed, conn, client_lock, last_rowid,
                   client_successes, call, pre>>

\* service = await self.get_service(service_id)
add_appointment_get_service(t) ==
    /\ pc[t] = "get_service"
    /\ LET found == RowsById(services, loc[t].service_id)
       IN  IF found = {}
               THEN /\ Finish(t, Failure("service not found"))
                    /\ loc' = loc
               ELSE /\ Goto(t, "check")
                    /\ loc' = [loc EXCEPT ![t].duration = (CHOOSE v \in found : TRUE).duration]
    /\ UNCHANGED <<settings, bot_vars, connects, now, clients, services, appointments,
                   transactions, committed, conn, client_lock, last_rowid,
                   client_successes, call, pre>>

\* (the check as it would be with the row written before the loop's verdict)
add_appointment_check_AfterInsert(t) ==
    /\ pc[t] = "check"
    /\ LET a == call[t].args
           new_end_time == a.appointment_time + loc[t].duration
           existing == get_appointments_by_date(appointments, services, a.appointment_time)
           row == [id |-> Len(appointments) + 1, client_id |-> a.client_id,
                   service_id |-> loc[t].service_id, car_info |-> a.car_info,
                   appointment_time |-> a.appointment_time, status |-> "pending",
                   comment |-> a.comment]
       IN  IF ConflictScan(existing, services, a.appointment_time, new_end_time) = "ok"
               THEN /\ Goto(t, "insert")
                    /\ UNCHANGED <<settings, bot_vars, connects, appointments, last_rowid>>
               ELSE /\ Len(appointments) < MaxAppointments
                    /\ appointments' = Append(appointments, row)
                    /\ last_rowid' = row.id
                    /\ Finish(t, Failure("error adding appointment"))
    /\ UNCHANGED <<settings, bot_vars, connects, now, clients, services, transactions,
                   committed, conn, client_lock, client_successes, call, loc, pre>>

\* existing_appointments = await self.get_appointments_by_date(...), and the loop
add_appointment_check(t) ==
    /\ pc[t] = "check"
    /\ LET appointment_time == call[t].args.appointment_time
           new_end_time == appointment_time + loc[t].duration
           existing == get_appointments_by_date(appointments, services, appointment_time)
           outcome == ConflictScan(existing, services, appointment_time, new_end_time)
       IN  IF outcome = "conflict" THEN Finish(t, Failure("time overlaps another appointment"))
           ELSE IF outcome = "raise" THEN Finish(t, Failure("error adding appointment"))
           ELSE Goto(t, "insert")
    /\ UNCHANGED <<settings, bot_vars, connects, now, clients, services, appointments,
                   transactions, committed, conn, client_lock, last_rowid,
                   client_successes, call, loc, pre>>

\* get_appointments_by_date catches the exception of a lookup that fails at the
\* storage layer and returns []: the loop has nothing to scan
add_appointment_lookup_fails(t) ==
    /\ pc[t] = "check"
    /\ loc' = [loc EXCEPT ![t].fault = TRUE]
    /\ Goto(t, "insert")
    /\ UNCHANGED <<settings, bot_vars, connects, now, clients, services, appointments,
                   transactions, committed, conn, client_lock, last_rowid,
                   client_successes, call, pre>>

\* await self.conn.execute(AppointmentQueries.INSERT, ...), foreign keys ON
add_appointment_insert(t) ==
    /\ pc[t] = "insert"
    /\ LET a == call[t].args
           row == [id |-> Len(appointments) + 1, client_id |-> a.client_id,
                   service_id |-> loc[t].service_id, car_info |-> a.car_info,
                   appointment_time |-> a.appointment_time, status |-> "pending",
                   comment |-> a.comment]
       IN  IF \/ ~foreign_keys
              \/ a.client_id \in Ids(clients) /\ loc[t].service_id \in Ids(services)
               THEN /\ Len(appointments) < MaxAppointments
                    /\ appointments' = Append(appointments, row)
                    /\ last_rowid' = row.id
                    /\ loc' = [loc EXCEPT ![t].inserted = row.id]
                    /\ Goto(t, "commit")
               ELSE /\ Finish(t, Failure("error adding appointment"))    \* IntegrityError
                    /\ UNCHANGED <<appointments, last_rowid, loc>>
    /\ UNCHANGED <<settings, bot_vars, connects, now, clients, services, transactions,
                   committed, conn, client_lock, client_successes, call, pre>>

\* await self.conn.commit(): every pending change of the connection is committed
add_appointment_commit(t) ==
    /\ pc[t] = "commit"
    /\ Goto(t, "rowid")
    /\ committed' = Database(clients, services, appointments, transactions)
    /\ UNCHANGED <<settings, bot_vars, connects, now, clients, services, appointments,
                   transactions, conn, client_lock, last_rowid, client_successes, call,
                   loc, pre>>

\* SELECT last_insert_rowid()
add_appointment_rowid(t) ==
    /\ pc[t] = "rowid"
    /\ loc' = [loc EXCEPT ![t].rowid = last_rowid]
    /\ Goto(t, "read")
    /\ UNCHANGED <<settings, bot_vars, connects, now, clients, services, appointments,
                   transactions, committed, conn, client_lock, last_rowid,
                   client_successes, call, pre>>

\* AppointmentQueries.GET_BY_ID of that rowid, and the return
add_appointment_read(t) ==
    /\ pc[t] = "read"
    /\ LET found == get_appointment(appointments, services, loc[t].rowid)
       IN  IF found # {} THEN Finish(t, Success(CHOOSE r \in found : TRUE))
           ELSE Finish(t, Failure("error creating appointment"))
    /\ UNCHANGED <<settings, bot_vars, connects, now, clients, services, appointments,
                   transactions, committed, conn, client_lock, last_rowid,
                   client_successes, call, loc, pre>>

----------------------------------------------------------------------------
(* DatabaseManager.update_appointment_status *)

update_appointment_status(t, ids, statuses) ==
    \E appointment_id \in ids, status_arg \in statuses :
        LET status == status_arg.value      \* status.value for a member of the enum
        IN  /\ Begin(t, "update_appointment_status",
                     [appointment_id |-> appointment_id, status |-> status])
            /\ IF validate_status(status) # NoError
                   THEN /\ Finish(t, Failure(validate_status(status)))
                        /\ UNCHANGED <<settings, bot_vars, connects, appointments,
                                       committed>>
                   ELSE /\ appointments' = UPDATE_STATUS(appointments, status, appointment_id)
                        /\ committed' = Database(clients, services, appointments',
                                                 transactions)
                        /\ Finish(t, Success(NoResult))
            /\ UNCHANGED <<settings, bot_vars, connects, now, clients, services,
                           transactions, conn, client_lock, last_rowid, client_successes,
                           loc>>

----------------------------------------------------------------------------
(* DatabaseManager.add_transaction.  It does not call commit.              *)

add_transaction(t, inputs) ==
    \E a \in inputs :
      LET found == get_appointment(appointments, services, a.appointment_id)
          row == [id |-> Len(transactions) + 1, appointment_id |-> a.appointment_id,
                  amount |-> NUMERIC(a.amount), type |-> a.type_,
                  category |-> a.category, created_at |-> now]
      IN
        /\ Begin(t, "add_transaction", a)
        /\ IF validate_amount(a.amount) # NoError
               THEN /\ Finish(t, Failure(validate_amount(a.amount)))
                    /\ UNCHANGED <<settings, bot_vars, connects, transactions, last_rowid>>
           ELSE IF validate_transaction_type(a.type_) # NoError
               THEN /\ Finish(t, Failure(validate_transaction_type(a.type_)))
                    /\ UNCHANGED <<settings, bot_vars, connects, transactions, last_rowid>>
           ELSE IF validate_category(a.category) # NoError
               THEN /\ Finish(t, Failure(validate_category(a.category)))
                    /\ UNCHANGED <<settings, bot_vars, connects, transactions, last_rowid>>
           ELSE IF a.appointment_id # NoneInt /\ found = {}
               THEN /\ Finish(t, Failure("appointment (appointment_id) not found"))
                    /\ UNCHANGED <<settings, bot_vars, connects, transactions, last_rowid>>
           ELSE IF /\ foreign_keys
                   /\ a.appointment_id # NoneInt
                   /\ a.appointment_id \notin Ids(appointments)
               THEN /\ Finish(t, Failure("error adding transaction"))    \* IntegrityError
                    /\ UNCHANGED <<settings, bot_vars, connects, transactions, last_rowid>>
           ELSE /\ Len(transactions) < MaxTransactions
                /\ transactions' = Append(transactions, row)
                /\ last_rowid' = row.id
                /\ Finish(t, Success(Transaction_from_db(row)))
        /\ UNCHANGED <<settings, bot_vars, connects, now, clients, services, appointments,
                       committed, conn, client_lock, client_successes, loc>>

----------------------------------------------------------------------------
(* The read queries.  Each catches every exception of the storage layer,   *)
(* logs it and returns an empty list.                                      *)

\* what a read returns: the list alone
Returned(rows) == Success(rows)

\* DatabaseManager.get_upcoming_appointments
get_upcoming_appointments(t) ==
    \E fault \in BOOLEAN :
        /\ Begin(t, "get_upcoming_appointments", [none |-> TRUE])
        /\ loc' = [loc EXCEPT ![t] = [NoLoc EXCEPT !.fault = fault]]
        /\ Finish(t, Returned(IF fault THEN <<>>
                              ELSE GET_UPCOMING(appointments, services, now)))
        /\ UNCHANGED <<settings, bot_vars, connects, now, clients, services, appointments,
                       transactions, committed, conn, client_lock, last_rowid,
                       client_successes>>

\* DatabaseManager.get_appointments_by_date_range
get_appointments_by_date_range(t) ==
    \E fault \in BOOLEAN, start_date \in DateInputs, end_date \in DateInputs :
        /\ Begin(t, "get_appointments_by_date_range",
                 [start_date |-> start_date, end_date |-> end_date])
        /\ loc' = [loc EXCEPT ![t] = [NoLoc EXCEPT !.fault = fault]]
        /\ LET rows == GET_BY_DATE_RANGE(appointments, services, start_date, end_date)
           IN  Finish(t, Returned(IF fault THEN <<>>
                                  ELSE [i \in 1..Len(rows) |-> Appointment_from_db(rows[i])]))
        /\ UNCHANGED <<settings, bot_vars, connects, now, clients, services, appointments,
                       transactions, committed, conn, client_lock, last_rowid,
                       client_successes>>

\* DatabaseManager.get_transactions_by_date
get_transactions_by_date(t) ==
    \E fault \in BOOLEAN :
        /\ Begin(t, "get_transactions_by_date", [date |-> now])
        /\ loc' = [loc EXCEPT ![t] = [NoLoc EXCEPT !.fault = fault]]
        /\ Finish(t, Returned(IF fault THEN <<>>
                              ELSE TX_GET_BY_DATE_RANGE(transactions, now, now)))
        /\ UNCHANGED <<settings, bot_vars, connects, now, clients, services, appointments,
                       transactions, committed, conn, client_lock, last_rowid,
                       client_successes>>

----------------------------------------------------------------------------
(* services/analytics/analytics.py.  Each method wraps its body in         *)
(* 'except Exception' and returns an empty dict or list in its place; the  *)
(* store's reads it calls return [] when the storage layer raises.  The    *)
(* averages and the shares of the reports are left out.                    *)

\* round(completed / total * 100 if total else 0, 2), in hundredths of a percent
Conversion_Ratio(completed, total) ==
    IF total = 0 THEN 0
    ELSE LET q == (completed * 100) \div total
             r == (completed * 100) % total
         IN  IF 2 * r > total \/ (2 * r = total /\ q % 2 = 1) THEN q + 1 ELSE q

Conversion(completed, total) ==
    IF total = 0 THEN 0
    ELSE LET q == (completed * 10000) \div total
             r == (completed * 10000) % total
         IN  IF 2 * r > total \/ (2 * r = total /\ q % 2 = 1) THEN q + 1 ELSE q

\* sum(1 for a in appointments if a.status.value == status)
CountStatus(apts, status) == Len(SelectSeq(apts, LAMBDA a : a.status = status))

\* sum(t.amount for t in transactions if t.type.value == type)
SumType(txs, type) ==
    LET of_type == SelectSeq(txs, LAMBDA x : x.type = type)
    IN  DecimalSum([i \in 1..Len(of_type) |-> of_type[i].amount])

\* AnalyticsService.get_daily_stats.  fault: get_appointments_by_date fails
\* and returns []; raised: the query on transactions raises.
get_daily_stats(t) ==
    \E date \in AnalyticsDateInputs, fault \in BOOLEAN, raised \in BOOLEAN :
        LET apts == IF fault THEN <<>>
                    ELSE get_appointments_by_date(appointments, services, date)
            day_ids == {a.id : a \in {r \in SeqToSet(appointments) :
                                         DateOf(r.appointment_time) = DateOf(date)}}
            rows == SelectSeq(transactions, LAMBDA x : x.appointment_id \in day_ids)
            txs == [i \in 1..Len(rows) |-> Transaction_from_db(rows[i])]
            stats ==
                [date |-> date,
                 total |-> Len(apts),
                 completed |-> CountStatus(apts, "completed"),
                 cancelled |-> CountStatus(apts, "cancelled"),
                 conversion |-> Conversion(CountStatus(apts, "completed"), Len(apts)),
                 income |-> SumType(txs, "income"),
                 expense |-> SumType(txs, "expense"),
                 profit |-> DecimalSub(SumType(txs, "income"), SumType(txs, "expense"))]
        IN  /\ Begin(t, "get_daily_stats", [date |-> date])
            /\ loc' = [loc EXCEPT ![t] = [NoLoc EXCEPT !.fault = fault \/ raised]]
            /\ Finish(t, Returned(IF raised THEN NoResult ELSE stats))
            /\ UNCHANGED <<settings, bot_vars, connects, now, clients, services,
                           appointments, transactions, committed, conn, client_lock,
                           last_rowid, client_successes>>

\* AnalyticsService.get_period_stats.  The loop over the days starts at
\* start_date and adds one day while the datetime is not after end_date.
get_period_stats(t) ==
    \E start_date \in AnalyticsDateInputs, end_date \in AnalyticsDateInputs,
       fault \in BOOLEAN, tx_fault \in BOOLEAN :
        LET rows == GET_BY_DATE_RANGE(appointments, services, start_date, end_date)
            apts == IF fault THEN <<>>
                    ELSE [i \in 1..Len(rows) |-> Appointment_from_db(rows[i])]
            txs == IF tx_fault THEN <<>>
                   ELSE TX_GET_BY_DATE_RANGE(transactions, start_date, end_date)
            current_dates ==
                IF start_date > end_date THEN {}
                ELSE {start_date + k * DayMinutes :
                         k \in 0..((end_date - start_date) \div DayMinutes)}
            Day(d) ==
                LET day_appointments ==
                        SelectSeq(apts, LAMBDA a : DateOf(a.appointment_time) = d)
                    day_transactions == SelectSeq(txs, LAMBDA x : DateOf(x.created_at) = d)
                IN  [appointments |-> Len(day_appointments),
                     completed |-> CountStatus(day_appointments, "completed"),
                     income |-> SumType(day_transactions, "income"),
                     expense |-> SumType(day_transactions, "expense"),
                     profit |-> DecimalSub(SumType(day_transactions, "income"),
                                           SumType(day_transactions, "expense"))]
            daily_stats == [d \in {DateOf(c) : c \in current_dates} |-> Day(d)]
            stats ==
                [start |-> start_date, end |-> end_date,
                 days |-> Cardinality(DOMAIN daily_stats),
                 total |-> [appointments |-> Len(apts),
                            completed |-> CountStatus(apts, "completed"),
                            cancelled |-> CountStatus(apts, "cancelled"),
                            conversion |-> Conversion(CountStatus(apts, "completed"),
                                                      Len(apts)),
                            income |-> SumType(txs, "income"),
                            expense |-> SumType(txs, "expense"),
                            profit |-> DecimalSub(SumType(txs, "income"),
                                                  SumType(txs, "expense"))],
                 daily |-> daily_stats]
        IN  /\ Begin(t, "get_period_stats", [start_date |-> start_date, end_date |-> end_date])
            /\ loc' = [loc EXCEPT ![t] = [NoLoc EXCEPT !.fault = fault \/ tx_fault]]
            /\ Finish(t, Returned(stats))
            /\ UNCHANGED <<settings, bot_vars, connects, now, clients, services,
                           appointments, transactions, committed, conn, client_lock,
                           last_rowid, client_successes>>

\* AnalyticsService.get_popular_services.  The grouping loop reads
\* appointment.service_price, an attribute Appointment.from_db does not set:
\* the AttributeError is caught and [] is returned.  Of an entry the service
\* and its count are kept.
get_popular_services(t) ==
    \E start_date \in AnalyticsDateInputs, end_date \in AnalyticsDateInputs,
       limit \in LimitInputs, fault \in BOOLEAN :
        LET rows == GET_BY_DATE_RANGE(appointments, services, start_date, end_date)
            apts == IF fault THEN <<>>
                    ELSE [i \in 1..Len(rows) |-> Appointment_from_db(rows[i])]
            completed == SelectSeq(apts, LAMBDA a : a.status = "completed")
            raises == \E i \in 1..Len(completed) : "service_price" \notin DOMAIN completed[i]
            First(id) == CHOOSE i \in 1..Len(completed) :
                             /\ completed[i].service_id = id
                             /\ \A j \in 1..(i - 1) : completed[j].service_id # id
            services_stats ==
                {[service_id |-> id, first |-> First(id),
                  count |-> Len(SelectSeq(completed, LAMBDA a : a.service_id = id))] :
                    id \in {completed[i].service_id : i \in 1..Len(completed)}}
            \* result.sort(key=count, reverse=True): stable, in the order of the dict
            RECURSIVE Sorted(_)
            Sorted(es) ==
                IF es = {} THEN <<>>
                ELSE LET top == CHOOSE e \in es : \A q \in es :
                                    e.count > q.count \/ (e.count = q.count /\ e.first <= q.first)
                     IN  <<top>> \o Sorted(es \ {top})
            sorted == Sorted({e \in services_stats : e.service_id \in Ids(services)})
            result == [i \in 1..Len(sorted) |->
                          [service_id |-> sorted[i].service_id, count |-> sorted[i].count]]
            kept == IF limit < Len(result) THEN limit ELSE Len(result)
        IN  /\ Begin(t, "get_popular_services",
                     [start_date |-> start_date, end_date |-> end_date, limit |-> limit])
            /\ loc' = [loc EXCEPT ![t] = [NoLoc EXCEPT !.fault = fault]]
            /\ Finish(t, Returned(IF raises THEN <<>> ELSE SubSeq(result, 1, kept)))
            /\ UNCHANGED <<settings, bot_vars, connects, now, clients, services,
                           appointments, transactions, committed, conn, client_lock,
                           last_rowid, client_successes>>

----------------------------------------------------------------------------
(* The connection *)

\* DatabaseManager.close, called while no other call is running: what the
\* connection has not committed is rolled back
close ==
    /\ conn
    /\ Running = {}
    /\ conn' = FALSE
    /\ clients' = committed.clients
    /\ services' = committed.services
    /\ appointments' = committed.appointments
    /\ transactions' = committed.transactions
    /\ UNCHANGED <<settings, bot_vars, connects, now, committed, client_lock, last_rowid,
                   client_successes, call, pc, loc, ret, pre>>

\* DatabaseManager.init_db on the same database file: the tables are created
\* where they do not exist, and SettingsQueries.INSERT (INSERT OR REPLACE)
\* writes the default contacts
init_db ==
    /\ ~conn
    /\ connects < MaxConnects
    /\ conn' = TRUE
    /\ connects' = connects + 1
    /\ last_rowid' = 0
    /\ settings' = [key \in DOMAIN settings \cup {"contacts"} |->
                       IF key = "contacts" THEN DefaultContacts ELSE settings[key]]
    /\ UNCHANGED <<bot_vars, now, clients, services, appointments, transactions,
                   committed, client_lock, client_successes, call, pc, loc, ret, pre>>

\* DatabaseManager.get_setting: the value of the key's row, None without a
\* row and None on a storage exception
get_setting(t) ==
    \E key \in {"contacts", "address"}, fault \in BOOLEAN :
        /\ Begin(t, "get_setting", [key |-> key])
        /\ loc' = [loc EXCEPT ![t] = [NoLoc EXCEPT !.fault = fault]]
        /\ Finish(t, Returned(IF fault \/ key \notin DOMAIN settings THEN "None"
                              ELSE settings[key]))
        /\ UNCHANGED <<settings, bot_vars, connects, now, clients, services, appointments,
                       transactions, committed, conn, client_lock, last_rowid,
                       client_successes>>

\* DatabaseManager.update_setting: SettingsQueries.UPDATE changes the row of
\* the key when there is one, and the commit makes every pending change of
\* the connection durable; a storage exception is returned as the error
update_setting(t) ==
    \E key \in {"contacts", "address"}, value \in {"new_contacts", "newer_contacts"},
       fault \in BOOLEAN :
        /\ Begin(t, "update_setting", [key |-> key, value |-> value])
        /\ loc' = [loc EXCEPT ![t] = [NoLoc EXCEPT !.fault = fault]]
        /\ IF fault
               THEN /\ Finish(t, Failure("storage exception"))
                    /\ UNCHANGED <<settings, committed>>
               ELSE /\ settings' = [k \in DOMAIN settings |->
                                       IF k = key THEN value ELSE settings[k]]
                    /\ committed' = Database(clients, services, appointments, transactions)
                    /\ Finish(t, Success(NoResult))
        /\ UNCHANGED <<bot_vars, connects, now, clients, services, appointments,
                       transactions, conn, client_lock, last_rowid, client_successes>>

\* any method called while self.conn is None raises RuntimeError
not_initialized(t) ==
    /\ pc[t] = "idle"
    /\ ~conn
    /\ call' = [call EXCEPT ![t] = [op |-> "not_initialized", args |-> [none |-> TRUE],
                                    during |-> Running]]
    /\ Finish(t, Failure("RuntimeError: Database not initialized"))
    /\ UNCHANGED <<settings, bot_vars, connects, now, clients, services, appointments,
                   transactions, committed, conn, client_lock, last_rowid,
                   client_successes, loc, pre>>

----------------------------------------------------------------------------
(* main.check_reminders, the periodic task, with                           *)
(* NotificationService.check_and_send_reminders                            *)

ReminderDays == 2
ReminderPeriod == 30      \* asyncio.sleep(1800), minutes

\* check_and_send_reminders: which reminder an appointment gets at the clock's
\* reading, 0 for none: hours_until is within 23.5 to 24.5, or else 1.5 to 2.5
hours_before_Wide(appointment_time, clock) ==
    LET hours_until == appointment_time - clock
    IN  IF 23 * HourMinutes <= hours_until /\ hours_until <= 25 * HourMinutes THEN 24
        ELSE IF 1 * HourMinutes <= hours_until /\ hours_until <= 3 * HourMinutes THEN 2
        ELSE 0

hours_before(appointment_time, clock) ==
    LET half_hours == 2 * (appointment_time - clock)
    IN  IF 47 * HourMinutes <= half_hours /\ half_hours <= 49 * HourMinutes THEN 24
        ELSE IF 3 * HourMinutes <= half_hours /\ half_hours <= 5 * HourMinutes THEN 2
        ELSE 0

\* one cycle of the loop: the appointments of today and the two days after
\* are read with their clients, and a reminder is sent for every one that is
\* not cancelled and is 23.5 to 24.5 hours, or else 1.5 to 2.5 hours, ahead.
\* A read that fails gives no rows (get_appointments_by_date_range returns
\* [], get_client_by_id returns None), and a call on a closed connection
\* raises into the loop's except branch: nothing is sent in that cycle.  The
\* cycle itself takes up to MaxCycleMinutes.  It runs between the calls of
\* the other tasks.
check_reminders ==
    \E fault \in BOOLEAN, work \in 0..MaxCycleMinutes :
        /\ ~task.asleep
        /\ task.cycles < MaxCycles
        /\ Running = {}
        /\ LET end_date == now + ReminderDays * DayMinutes
               rows == IF fault \/ ~conn THEN <<>>
                       ELSE GET_BY_DATE_RANGE(appointments, services, now, end_date)
               Reminded(a) ==
                   /\ a.status # "cancelled"
                   /\ a.client_id \in Ids(clients)
                   /\ hours_before(a.appointment_time, now) # 0
               due == SelectSeq(rows, Reminded)
           IN  sent' = sent \o [i \in 1..Len(due) |->
                                  [chat_id |-> clients[due[i].client_id].telegram_id,
                                   appointment_id |-> due[i].id,
                                   hours_before |-> hours_before(due[i].appointment_time, now),
                                   at |-> now]]
        /\ task' = [asleep |-> TRUE, cycles |-> task.cycles + 1,
                    missed |-> task.missed + (IF fault \/ ~conn THEN 1 ELSE 0)]
        /\ now' = now + work
        /\ UNCHANGED <<settings, chat_vars, connects, clients, services, appointments,
                       transactions, committed, conn, client_lock, last_rowid,
                       client_successes, call, pc, loc, ret, pre>>

\* await asyncio.sleep(1800) is over
sleep ==
    /\ task.asleep
    /\ task' = [task EXCEPT !.asleep = FALSE]
    /\ now' = now + ReminderPeriod
    /\ UNCHANGED <<settings, sent, chat_vars, connects, clients, services, appointments,
                   transactions, committed, conn, client_lock, last_rowid,
                   client_successes, call, pc, loc, ret, pre>>

----------------------------------------------------------------------------
(* handlers/client_handlers.py: the registration and booking conversation  *)
(* of the user whose telegram_id is the client's.  A handler runs when the *)
(* one before it has returned; its calls of the store run on a task of     *)
(* their own.                                                              *)

HandlerTasks == Tasks \ SeqTasks
from_user == CHOOSE id \in TelegramIds : \A other \in TelegramIds : id <= other
store_vars == <<settings, connects, now, clients, services, appointments, transactions,
                committed, conn, client_lock, last_rowid, client_successes>>

\* the handler answers and leaves the conversation in the given state
Answer(next_state, next_data, text) ==
    /\ state' = next_state
    /\ data' = next_data
    /\ reply' = text

\* the handler takes the result of the call it awaited
Awaited(t) ==
    /\ pc' = [pc EXCEPT ![t] = "idle"]
    /\ call' = [call EXCEPT ![t] = NoCall]
    /\ loc' = [loc EXCEPT ![t] = NoLoc]
    /\ ret' = [ret EXCEPT ![t] = NoRet]
    /\ pre' = [pre EXCEPT ![t] = NoStore]

cmd_start ==
    /\ conn /\ \A t \in HandlerTasks : pc[t] = "idle"
    /\ IF GET_BY_TELEGRAM_ID(clients, from_user) # {}
           THEN Answer(state, data, "welcome back")
           ELSE Answer("ENTER_NAME", data, "enter name")
    /\ UNCHANGED <<store_vars, task, sent, attempts, handled, call, pc, loc, ret, pre>>

process_name ==
    \E text \in {Client.name, <<"I", "v", "a", "n">>} :
        LET name == Strip(text)
        IN  /\ state = "ENTER_NAME"
            /\ IF validate_name(name) # NoError
                   THEN Answer(state, data, "invalid name")
                   ELSE Answer("ENTER_PHONE", [data EXCEPT !.name = name], "enter phone")
            /\ UNCHANGED <<store_vars, task, sent, attempts, handled, call, pc, loc, ret,
                           pre>>

\* process_phone, up to the call of db.add_client
process_phone(t) ==
    \E text \in {Client.phone, <<"1", "2", "3", "4", "5">>} :
        LET phone == Strip(text)
        IN  /\ state = "ENTER_PHONE"
            /\ pc[t] = "idle"
            /\ IF validate_phone(phone) # NoError
                   THEN /\ Answer(state, data, "invalid phone")
                        /\ UNCHANGED <<store_vars, task, sent, attempts, handled, call, pc,
                                       loc, ret, pre>>
                   ELSE add_client(t, {[name |-> data.name, phone |-> phone]})

\* process_phone, from the return of db.add_client
process_phone_return(t) ==
    /\ state = "ENTER_PHONE"
    /\ Done(t, "add_client")
    /\ Answer("None", NoData,
              IF ret[t].success THEN "registered" ELSE "registration failed")
    /\ Awaited(t)
    /\ UNCHANGED <<store_vars, task, sent, attempts, handled>>

cmd_new_appointment ==
    /\ conn /\ \A t \in HandlerTasks : pc[t] = "idle"
    /\ state \notin {"ENTER_NAME", "ENTER_PHONE"}
    /\ IF GET_BY_TELEGRAM_ID(clients, from_user) = {}
           THEN Answer(state, data, "register first")
       ELSE IF services = <<>>
           THEN Answer(state, data, "no services")
       ELSE Answer("SELECT_SERVICE", [data EXCEPT !.appointment = AppointmentData],
                   "select service")
    /\ UNCHANGED <<store_vars, task, sent, attempts, handled, call, pc, loc, ret, pre>>

process_service_selection_client ==
    \E cancel \in BOOLEAN, service_id \in 1..(NumServiceNames + 1) :
        LET found == RowsById(services, service_id)
            service == CHOOSE v \in found : TRUE
        IN  /\ state = "SELECT_SERVICE"
            /\ conn
            /\ IF cancel THEN Answer("None", NoData, "cancelled")
               ELSE IF found = {} THEN Answer(state, data, "service not found")
               ELSE Answer("SELECT_DATE",
                           [data EXCEPT !.appointment.service_id = service_id,
                                        !.appointment.service_name = service.name],
                           "select date")
            /\ UNCHANGED <<store_vars, task, sent, attempts, handled, call, pc, loc, ret,
                           pre>>

process_date_selection ==
    \E cancel \in BOOLEAN, selected_date \in {At(d, 0, 0) : d \in 0..MaxDay} :
        /\ state = "SELECT_DATE"
        /\ conn
        /\ IF cancel THEN Answer("None", NoData, "cancelled")
           ELSE Answer("SELECT_TIME", [data EXCEPT !.appointment.date = selected_date],
                       "select time")
        /\ UNCHANGED <<store_vars, task, sent, attempts, handled, call, pc, loc, ret, pre>>

process_time_selection ==
    \E callback \in {"cancel", "back_to_date", "time"},
       time \in {10 * HourMinutes, 11 * HourMinutes} :
        /\ state = "SELECT_TIME"
        /\ IF callback = "cancel" THEN Answer("None", NoData, "cancelled")
           ELSE IF callback = "back_to_date" THEN Answer("SELECT_DATE", data, "select date")
           ELSE Answer("ENTER_CAR", [data EXCEPT !.appointment.time = time],
                       "enter car_info")
        /\ UNCHANGED <<store_vars, task, sent, attempts, handled, call, pc, loc, ret, pre>>

\* process_car_info and show_appointment_confirmation
process_car_info ==
    \E text \in {CarInfo, <<"K", "i", "a", "#", "1">>} :
        LET car_info == Strip(text)
        IN  /\ state = "ENTER_CAR"
            /\ IF validate_car_info(car_info) # NoError
                   THEN Answer(state, data, "invalid car_info")
                   ELSE Answer("CONFIRM_APPOINTMENT",
                               [data EXCEPT !.appointment.car_info = car_info], "confirm")
            /\ UNCHANGED <<store_vars, task, sent, attempts, handled, call, pc, loc, ret,
                           pre>>

\* process_appointment_confirmation, up to the call of db.add_appointment
process_appointment_confirmation(t) ==
    \E cancel \in BOOLEAN :
        LET found == GET_BY_TELEGRAM_ID(clients, from_user)
            client == CHOOSE c \in found : TRUE
            appointment_data == data.appointment
        IN  /\ state = "CONFIRM_APPOINTMENT"
            /\ pc[t] = "idle"
            /\ conn
            /\ IF cancel \/ found = {}
                   THEN /\ Answer("None", NoData,
                                  IF cancel THEN "cancelled" ELSE "client not found")
                        /\ UNCHANGED <<store_vars, task, sent, attempts, handled, call, pc,
                                       loc, ret, pre>>
                   ELSE add_appointment(t,
                            {[client_id |-> client.id, service_id |-> NoneInt,
                              service_type |-> appointment_data.service_name,
                              car_info |-> appointment_data.car_info,
                              appointment_time |->
                                  appointment_data.date + appointment_data.time,
                              comment |-> appointment_data.comment]})

\* process_appointment_confirmation, from the return of db.add_appointment
process_appointment_confirmation_return(t) ==
    /\ state = "CONFIRM_APPOINTMENT"
    /\ Done(t, "add_appointment")
    /\ Answer("None", NoData, IF ret[t].success THEN "created" ELSE "creation failed")
    /\ Awaited(t)
    /\ UNCHANGED <<store_vars, task, sent, attempts, handled>>

----------------------------------------------------------------------------
(* RateLimitMiddleware *)

RateLimit == 5            \* rate_limit
ResetTimeout == 5         \* reset_timeout: 300 seconds, in minutes
GuardedStates ==
    {"ClientStates:ENTER_PHONE", "PaymentStates:ENTER_AMOUNT", "AdminStates:ADD_SERVICE_PRICE"}

\* _cleanup_old_attempts: the attempts younger than reset_timeout are kept
cleanup_old_attempts(times, clock) ==
    SelectSeq(times, LAMBDA time : clock - time < ResetTimeout)

\* _check_rate_limit, on the attempts that were kept
check_rate_limit_Inclusive(times) == Len(times) <= RateLimit

check_rate_limit(times) == Len(times) < RateLimit

\* __call__: a message of a user arrives; handled records the text messages of
\* the guarded states, and whether the handler was invoked
RateLimitMiddleware_call ==
    \E user_id \in UserIds, text \in BOOLEAN,
       raw_state \in {"ClientStates:ENTER_PHONE", "PaymentStates:ENTER_AMOUNT",
                      "ClientStates:ENTER_NAME"} :
        /\ Len(handled) < MaxHandled
        /\ IF text /\ raw_state \in GuardedStates
               THEN LET kept == cleanup_old_attempts(attempts[user_id], now)
                    IN  IF ~check_rate_limit(kept)
                            THEN /\ attempts' = [attempts EXCEPT ![user_id] = kept]
                                 /\ reply' = "rate limit exceeded"
                                 /\ handled' = Append(handled, [user_id |-> user_id,
                                                                at |-> now,
                                                                invoked |-> FALSE])
                            ELSE /\ attempts' = [attempts EXCEPT
                                                    ![user_id] = Append(kept, now)]
                                 /\ reply' = reply
                                 /\ handled' = Append(handled, [user_id |-> user_id,
                                                                at |-> now,
                                                                invoked |-> TRUE])
               ELSE UNCHANGED <<attempts, reply, handled>>
        /\ UNCHANGED <<settings, task, sent, state, data, connects, now, clients, services,
                       appointments, transactions, committed, conn, client_lock,
                       last_rowid, client_successes, call, pc, loc, ret, pre>>

\* a minute passes
wait ==
    /\ now < NowStart + MaxWait
    /\ now' = now + 1
    /\ UNCHANGED <<settings, bot_vars, connects, clients, services, appointments,
                   transactions, committed, conn, client_lock, last_rowid,
                   client_successes, call, pc, loc, ret, pre>>

----------------------------------------------------------------------------
(* Specifications *)

\* the calls run one after another
Next ==
    \/ \E t \in SeqTasks : add_client(t, {Client})
    \/ \E t \in SeqTasks : add_client_insert(t)
    \/ \E t \in SeqTasks : add_client_commit(t)
    \/ \E t \in SeqTasks : add_client_read(t)
    \/ \E t \in SeqTasks :
           add_service(t, ServiceNameInputs, ServiceDescriptionInputs, DurationInputs)
    \/ \E t \in SeqTasks : add_service_select(t)
    \/ \E t \in SeqTasks : add_service_insert(t)
    \/ \E t \in SeqTasks : add_service_commit(t)
    \/ \E t \in SeqTasks : add_service_rowid(t)
    \/ \E t \in SeqTasks : add_service_read(t)
    \/ \E t \in SeqTasks : add_appointment(t, AddAppointmentInputs)
    \/ \E t \in SeqTasks : add_appointment_resolve(t)
    \/ \E t \in SeqTasks : add_appointment_get_service(t)
    \/ \E t \in SeqTasks : add_appointment_check(t)
    \/ \E t \in SeqTasks : add_appointment_insert(t)
    \/ \E t \in SeqTasks : add_appointment_commit(t)
    \/ \E t \in SeqTasks : add_appointment_rowid(t)
    \/ \E t \in SeqTasks : add_appointment_read(t)
    \/ \E t \in SeqTasks : update_appointment_status(t, AppointmentIdInputs, StatusInputs)
    \/ \E t \in SeqTasks : get_upcoming_appointments(t)
    \/ \E t \in SeqTasks : get_appointments_by_date_range(t)
    \/ \E t \in SeqTasks : Return(t)
    \/ Tick

Spec == Init /\ [][Next]_vars

\* The calls run concurrently on the event loop, each suspended at its awaited
\* statements.  The callers pass valid arguments that name existing rows.
ConcAddAppointmentInputs ==
    {a \in AddAppointmentInputs :
        /\ a.client_id = 1
        /\ a.service_id = 1 \/ a.service_type \in ServiceNames
        /\ a.car_info = CarInfo /\ a.comment = NoneStr
        /\ validate_appointment_time(a.appointment_time, NowStart) = NoError}
ConcStatusInputs == {[enum |-> FALSE, value |-> "cancelled"]}

\* a client or a service is being created
SetupRunning ==
    \E u \in Running : call[u].op \in {"add_client", "add_service"}

\* The client and the service are created by calls awaited alone; the bookings
\* and status updates are then gathered.
NextConc ==
    \/ \E t \in Tasks : Running = {} /\ add_client(t, {Client})
    \/ \E t \in Tasks : add_client_insert(t)
    \/ \E t \in Tasks : add_client_commit(t)
    \/ \E t \in Tasks : add_client_read(t)
    \/ \E t \in Tasks :
           Running = {} /\ add_service(t, ServiceNames, {ServiceDescription}, {60})
    \/ \E t \in Tasks : add_service_select(t)
    \/ \E t \in Tasks : add_service_insert(t)
    \/ \E t \in Tasks : add_service_commit(t)
    \/ \E t \in Tasks : add_service_rowid(t)
    \/ \E t \in Tasks : add_service_read(t)
    \/ \E t \in Tasks : ~SetupRunning /\ add_appointment(t, ConcAddAppointmentInputs)
    \/ \E t \in Tasks : add_appointment_resolve(t)
    \/ \E t \in Tasks : add_appointment_get_service(t)
    \/ \E t \in Tasks : add_appointment_check(t)
    \/ \E t \in Tasks : add_appointment_insert(t)
    \/ \E t \in Tasks : add_appointment_commit(t)
    \/ \E t \in Tasks : add_appointment_rowid(t)
    \/ \E t \in Tasks : add_appointment_read(t)
    \/ \E t \in Tasks :
           ~SetupRunning
               /\ update_appointment_status(t, Ids(appointments), ConcStatusInputs)
    \/ \E t \in Tasks : Return(t)

SpecConc == Init /\ [][NextConc]_vars

\* Bookings, new services and payments are made by concurrent calls on the one
\* connection, while the client registers.
NextMixed ==
    \/ \E t \in SeqTasks : add_client(t, {Client})
    \/ \E t \in Tasks : add_client_insert(t)
    \/ \E t \in Tasks : add_client_commit(t)
    \/ \E t \in Tasks : add_client_read(t)
    \/ \E t \in Tasks : add_service(t, ServiceNames, {ServiceDescription}, {60})
    \/ \E t \in Tasks : add_service_select(t)
    \/ \E t \in Tasks : add_service_insert(t)
    \/ \E t \in Tasks : add_service_commit(t)
    \/ \E t \in Tasks : add_service_rowid(t)
    \/ \E t \in Tasks : add_service_read(t)
    \/ \E t \in Tasks :
           add_appointment(t, {a \in ConcAddAppointmentInputs :
                                  a.service_id = 1 /\ a.appointment_time < At(0, 11, 0)})
    \/ \E t \in Tasks : add_appointment_get_service(t)
    \/ \E t \in Tasks : add_appointment_check(t)
    \/ \E t \in Tasks : add_appointment_insert(t)
    \/ \E t \in Tasks : add_appointment_commit(t)
    \/ \E t \in Tasks : add_appointment_rowid(t)
    \/ \E t \in Tasks : add_appointment_read(t)
    \/ \E t \in Tasks :
           add_transaction(t, AddTransactionArgs({Amount}, {"income"}, {Category},
                                                 {NoneInt}))
    \/ \E t \in Tasks : Return(t)

SpecMixed == Init /\ [][NextMixed]_vars

\* Clients and services are created by concurrent calls.
NextRegistry ==
    \/ \E t \in Tasks : add_client(t, ClientInputs)
    \/ \E t \in Tasks : add_client_acquire(t)
    \/ \E t \in Tasks : add_client_insert(t)
    \/ \E t \in Tasks : add_client_commit(t)
    \/ \E t \in Tasks : add_client_read(t)
    \/ \E t \in Tasks : add_service(t, ServiceNameInputs, {ServiceDescription}, {60})
    \/ \E t \in Tasks : add_service_select(t)
    \/ \E t \in Tasks : add_service_insert(t)
    \/ \E t \in Tasks : add_service_commit(t)
    \/ \E t \in Tasks : add_service_rowid(t)
    \/ \E t \in Tasks : add_service_read(t)
    \/ \E t \in Tasks : Return(t)

SpecRegistry == Init /\ [][NextRegistry]_vars

\* The event loop runs every task that can run: an awaited statement of the
\* connection completes, and asyncio.Lock wakes its waiters in the order they
\* came, so a waiter is not overtaken for ever.
SpecRegistryFair ==
    /\ SpecRegistry
    /\ \A t \in Tasks :
           /\ SF_vars(add_client_acquire(t))
           /\ WF_vars(add_client_insert(t))
           /\ WF_vars(add_client_commit(t))
           /\ WF_vars(add_client_read(t))

\* The calls run one after another; payments are recorded, and the connection
\* is closed and opened again.  The bookings name their service by id.
LedgerAddAppointmentInputs ==
    {a \in AddAppointmentInputs :
        /\ a.service_id # NoneInt
        /\ a.car_info = CarInfo /\ a.comment = NoneStr
        /\ a.appointment_time = At(0, 10, 0)}

NextLedger ==
    \/ \E t \in SeqTasks : add_client(t, {Client})
    \/ \E t \in SeqTasks : add_client_insert(t)
    \/ \E t \in SeqTasks : add_client_commit(t)
    \/ \E t \in SeqTasks : add_client_read(t)
    \/ \E t \in SeqTasks : add_service(t, ServiceNames, {ServiceDescription}, {60})
    \/ \E t \in SeqTasks : add_service_select(t)
    \/ \E t \in SeqTasks : add_service_insert(t)
    \/ \E t \in SeqTasks : add_service_commit(t)
    \/ \E t \in SeqTasks : add_service_rowid(t)
    \/ \E t \in SeqTasks : add_service_read(t)
    \/ \E t \in SeqTasks : add_appointment(t, LedgerAddAppointmentInputs)
    \/ \E t \in SeqTasks : add_appointment_get_service(t)
    \/ \E t \in SeqTasks : add_appointment_check(t)
    \/ \E t \in SeqTasks : add_appointment_insert(t)
    \/ \E t \in SeqTasks : add_appointment_commit(t)
    \/ \E t \in SeqTasks : add_appointment_rowid(t)
    \/ \E t \in SeqTasks : add_appointment_read(t)
    \/ \E t \in SeqTasks : update_appointment_status(t, Ids(appointments), ConcStatusInputs)
    \/ \E t \in SeqTasks : add_transaction(t, AddTransactionInputs)
    \/ \E t \in SeqTasks : get_transactions_by_date(t)
    \/ \E t \in SeqTasks : not_initialized(t)
    \/ \E t \in SeqTasks : Return(t)
    \/ close
    \/ init_db

SpecLedger == Init /\ [][NextLedger]_vars

\* A client books for 11:00 or 11:01 of the day and for 9:00 or 9:01 of the next
\* day and cancels, and the reminder task then runs its cycles.
NextReminders ==
    \/ \E t \in SeqTasks : add_client(t, {Client})
    \/ \E t \in SeqTasks : add_client_insert(t)
    \/ \E t \in SeqTasks : add_client_commit(t)
    \/ \E t \in SeqTasks : add_client_read(t)
    \/ \E t \in SeqTasks : add_service(t, ServiceNames, {ServiceDescription}, {60})
    \/ \E t \in SeqTasks : add_service_select(t)
    \/ \E t \in SeqTasks : add_service_insert(t)
    \/ \E t \in SeqTasks : add_service_commit(t)
    \/ \E t \in SeqTasks : add_service_rowid(t)
    \/ \E t \in SeqTasks : add_service_read(t)
    \/ \E t \in SeqTasks :
           add_appointment(t, {[a EXCEPT !.appointment_time = time] :
                                  a \in WindowAddAppointmentInputs,
                                  time \in IF task.cycles > 0 THEN {}
                                           ELSE {At(0, 11, 0), At(0, 11, 1),
                                                 At(1, 9, 0), At(1, 9, 1)}})
    \/ \E t \in SeqTasks : add_appointment_get_service(t)
    \/ \E t \in SeqTasks : add_appointment_check(t)
    \/ \E t \in SeqTasks : add_appointment_insert(t)
    \/ \E t \in SeqTasks : add_appointment_commit(t)
    \/ \E t \in SeqTasks : add_appointment_rowid(t)
    \/ \E t \in SeqTasks : add_appointment_read(t)
    \/ \E t \in SeqTasks :
           update_appointment_status(t, IF task.cycles > 1 THEN {} ELSE Ids(appointments),
                                     ConcStatusInputs)
    \/ \E t \in SeqTasks : Return(t)
    \/ check_reminders
    \/ sleep

SpecReminders == Init /\ [][NextReminders]_vars

\* The longest service is offered, and one that is longer than validation
\* allows; a client books the last minute of a day and the first of the next.
OvernightDurationInputs == {MaxServiceDuration, 15 * HourMinutes}
OvernightTimeInputs == {At(0, 19, 59), At(1, 9, 0), At(1, 8, 59), At(1, 19, 59), At(2, 9, 0)}

NextOvernight ==
    \/ \E t \in SeqTasks : add_client(t, {Client})
    \/ \E t \in SeqTasks : add_client_insert(t)
    \/ \E t \in SeqTasks : add_client_commit(t)
    \/ \E t \in SeqTasks : add_client_read(t)
    \/ \E t \in SeqTasks :
           add_service(t, ServiceNames, {ServiceDescription}, OvernightDurationInputs)
    \/ \E t \in SeqTasks : add_service_select(t)
    \/ \E t \in SeqTasks : add_service_insert(t)
    \/ \E t \in SeqTasks : add_service_commit(t)
    \/ \E t \in SeqTasks : add_service_rowid(t)
    \/ \E t \in SeqTasks : add_service_read(t)
    \/ \E t \in SeqTasks :
           add_appointment(t, {[a EXCEPT !.appointment_time = time] :
                                  a \in WindowAddAppointmentInputs,
                                  time \in OvernightTimeInputs})
    \/ \E t \in SeqTasks : add_appointment_get_service(t)
    \/ \E t \in SeqTasks : add_appointment_check(t)
    \/ \E t \in SeqTasks : add_appointment_insert(t)
    \/ \E t \in SeqTasks : add_appointment_commit(t)
    \/ \E t \in SeqTasks : add_appointment_rowid(t)
    \/ \E t \in SeqTasks : add_appointment_read(t)
    \/ \E t \in SeqTasks : Return(t)

SpecOvernight == Init /\ [][NextOvernight]_vars

\* The contacts are read and replaced, a client registers, and the connection
\* is closed and opened again.
NextSettings ==
    \/ \E t \in SeqTasks : get_setting(t)
    \/ \E t \in SeqTasks : update_setting(t)
    \/ \E t \in SeqTasks : add_client(t, {Client})
    \/ \E t \in SeqTasks : add_client_insert(t)
    \/ \E t \in SeqTasks : add_client_commit(t)
    \/ \E t \in SeqTasks : add_client_read(t)
    \/ \E t \in SeqTasks : Return(t)
    \/ close
    \/ init_db

SpecSettings == InitNew /\ [][NextSettings]_vars

\* The same calls on a manager that has just been constructed: init_db comes
\* first, and the connection is closed and opened again.
SpecLifecycle == InitNew /\ [][NextLedger]_vars

\* The calls run one after another; bookings are made for two days, completed
\* or cancelled and paid, and the reports are asked for.
NextAnalytics ==
    \/ \E t \in SeqTasks : add_client(t, {Client})
    \/ \E t \in SeqTasks : add_client_insert(t)
    \/ \E t \in SeqTasks : add_client_commit(t)
    \/ \E t \in SeqTasks : add_client_read(t)
    \/ \E t \in SeqTasks : add_service(t, ServiceNames, {ServiceDescription}, {60})
    \/ \E t \in SeqTasks : add_service_select(t)
    \/ \E t \in SeqTasks : add_service_insert(t)
    \/ \E t \in SeqTasks : add_service_commit(t)
    \/ \E t \in SeqTasks : add_service_rowid(t)
    \/ \E t \in SeqTasks : add_service_read(t)
    \/ \E t \in SeqTasks : add_appointment(t, AnalyticsAddAppointmentInputs)
    \/ \E t \in SeqTasks : add_appointment_get_service(t)
    \/ \E t \in SeqTasks : add_appointment_check(t)
    \/ \E t \in SeqTasks : add_appointment_insert(t)
    \/ \E t \in SeqTasks : add_appointment_commit(t)
    \/ \E t \in SeqTasks : add_appointment_rowid(t)
    \/ \E t \in SeqTasks : add_appointment_read(t)
    \/ \E t \in SeqTasks :
           update_appointment_status(t, Ids(appointments), AnalyticsStatusInputs)
    \/ \E t \in SeqTasks : add_transaction(t, AnalyticsTransactionInputs)
    \/ \E t \in SeqTasks : get_daily_stats(t)
    \/ \E t \in SeqTasks : get_period_stats(t)
    \/ \E t \in SeqTasks : get_popular_services(t)
    \/ \E t \in SeqTasks : Return(t)

SpecAnalytics == Init /\ [][NextAnalytics]_vars

\* The calls run one after another; bookings are asked for at the edges of
\* the time window while the clock advances.
NextWindow ==
    \/ \E t \in SeqTasks : add_client(t, {Client})
    \/ \E t \in SeqTasks : add_client_insert(t)
    \/ \E t \in SeqTasks : add_client_commit(t)
    \/ \E t \in SeqTasks : add_client_read(t)
    \/ \E t \in SeqTasks : add_service(t, ServiceNames, {ServiceDescription}, {60})
    \/ \E t \in SeqTasks : add_service_select(t)
    \/ \E t \in SeqTasks : add_service_insert(t)
    \/ \E t \in SeqTasks : add_service_commit(t)
    \/ \E t \in SeqTasks : add_service_rowid(t)
    \/ \E t \in SeqTasks : add_service_read(t)
    \/ \E t \in SeqTasks : add_appointment(t, WindowAddAppointmentInputs)
    \/ \E t \in SeqTasks : add_appointment_get_service(t)
    \/ \E t \in SeqTasks : add_appointment_check(t)
    \/ \E t \in SeqTasks : add_appointment_insert(t)
    \/ \E t \in SeqTasks : add_appointment_commit(t)
    \/ \E t \in SeqTasks : add_appointment_rowid(t)
    \/ \E t \in SeqTasks : add_appointment_read(t)
    \/ \E t \in SeqTasks : Return(t)
    \/ Tick

SpecWindow == Init /\ [][NextWindow]_vars

\* The user registers and books in the conversation with the bot, while a
\* service is added and a booking of the same hours is made directly.
NextBooking ==
    \/ cmd_start
    \/ process_name
    \/ \E t \in HandlerTasks : process_phone(t)
    \/ \E t \in HandlerTasks : add_client_insert(t)
    \/ \E t \in HandlerTasks : add_client_commit(t)
    \/ \E t \in HandlerTasks : add_client_read(t)
    \/ \E t \in HandlerTasks : process_phone_return(t)
    \/ cmd_new_appointment
    \/ process_service_selection_client
    \/ process_date_selection
    \/ process_time_selection
    \/ process_car_info
    \/ \E t \in HandlerTasks : process_appointment_confirmation(t)
    \/ \E t \in HandlerTasks : process_appointment_confirmation_return(t)
    \/ \E t \in SeqTasks : add_service(t, ServiceNames, {ServiceDescription}, {60})
    \/ \E t \in Tasks : add_service_select(t)
    \/ \E t \in Tasks : add_service_insert(t)
    \/ \E t \in Tasks : add_service_commit(t)
    \/ \E t \in Tasks : add_service_rowid(t)
    \/ \E t \in Tasks : add_service_read(t)
    \/ \E t \in SeqTasks : add_appointment(t, LedgerAddAppointmentInputs)
    \/ \E t \in Tasks : add_appointment_resolve(t)
    \/ \E t \in Tasks : add_appointment_get_service(t)
    \/ \E t \in Tasks : add_appointment_check(t)
    \/ \E t \in Tasks : add_appointment_insert(t)
    \/ \E t \in Tasks : add_appointment_commit(t)
    \/ \E t \in Tasks : add_appointment_rowid(t)
    \/ \E t \in Tasks : add_appointment_read(t)
    \/ \E t \in SeqTasks : Return(t)

SpecBooking == Init /\ [][NextBooking]_vars

\* Messages of two users arrive at the middleware while the minutes pass.
NextRateLimit ==
    \/ RateLimitMiddleware_call
    \/ wait

SpecRateLimit == Init /\ [][NextRateLimit]_vars

\* The same bookings, where the same-day lookup of a booking may fail.
NextLookup ==
    \/ NextWindow
    \/ \E t \in SeqTasks : add_appointment_lookup_fails(t)

SpecLookup == Init /\ [][NextLookup]_vars

----------------------------------------------------------------------------
(* What a finished call was about, read from its arguments and from the   *)
(* tables as they were when it was called                                  *)

Duration(svcs, a) == svcs[a.service_id].duration
Occupies(svcs, a) == a.status # "cancelled" /\ a.service_id \in Ids(svcs)
Overlap(svcs, a, b) ==
    /\ a.appointment_time < b.appointment_time + Duration(svcs, b)
    /\ a.appointment_time + Duration(svcs, a) > b.appointment_time

\* the service a call of add_appointment names, NoneInt when there is none
NamedService(svcs, args) ==
    IF args.service_id # NoneInt
        THEN (IF args.service_id \in Ids(svcs) THEN args.service_id ELSE NoneInt)
    ELSE IF args.service_type = NoneStr THEN NoneInt
    ELSE IF IntParses(args.service_type)
        THEN (IF IntValue(args.service_type) \in Ids(svcs)
                  THEN IntValue(args.service_type) ELSE NoneInt)
    ELSE IF \E i \in Ids(svcs) : svcs[i].name = args.service_type
        THEN CHOOSE i \in Ids(svcs) : svcs[i].name = args.service_type
    ELSE NoneInt

\* the candidate of a call: valid fields and an existing service
ValidCandidate(t) ==
    /\ validate_car_info(call[t].args.car_info) = NoError
    /\ validate_appointment_time(call[t].args.appointment_time, pre[t].now) = NoError
    /\ validate_comment(call[t].args.comment) = NoError
    /\ NamedService(pre[t].services, call[t].args) # NoneInt

Candidate(t) ==
    [appointment_time |-> call[t].args.appointment_time,
     service_id |-> NamedService(pre[t].services, call[t].args)]

\* the appointments of the candidate's day, as stored when the call began,
\* whose interval overlaps the candidate's
Overlapping(t) ==
    {a \in SeqToSet(pre[t].appointments) :
        /\ a.service_id \in Ids(pre[t].services)
        /\ DateOf(a.appointment_time) = DateOf(call[t].args.appointment_time)
        /\ Overlap(pre[t].services, Candidate(t), a)}

Targeted(t) == RowsById(pre[t].appointments, call[t].args.appointment_id)
TablesUnchangedSince(t) ==
    /\ appointments = pre[t].appointments
    /\ clients = pre[t].clients
    /\ services = pre[t].services
    /\ transactions = pre[t].transactions

----------------------------------------------------------------------------
(* C1: no two appointments that are not cancelled have overlapping         *)
(* intervals [appointment_time, appointment_time + service duration), in   *)
(* every state reached by calls run one after another.                     *)
C1_NoDoubleBooking ==
    \A i, j \in Ids(appointments) :
        (i < j /\ Occupies(services, appointments[i]) /\ Occupies(services, appointments[j]))
            => ~Overlap(services, appointments[i], appointments[j])

(* C2: of two add_appointment calls that run concurrently and whose        *)
(* intervals overlap, at most one succeeds.                                *)
C2_AtMostOneConcurrentBooking ==
    \A t, u \in Tasks :
        (/\ t # u
         /\ Done(t, "add_appointment") /\ Done(u, "add_appointment")
         /\ u \in call[t].during
         /\ ValidCandidate(t) /\ ValidCandidate(u)
         /\ Overlap(services, Candidate(t), Candidate(u)))
            => ~(ret[t].success /\ ret[u].success)

(* C3: a candidate that overlaps an appointment of its day that is not     *)
(* cancelled is rejected with the overlap error, and nothing is inserted.  *)
C3_OverlapIsSchedulingConflict ==
    \A t \in Tasks :
        (/\ Done(t, "add_appointment")
         /\ ValidCandidate(t)
         /\ \E a \in Overlapping(t) : a.status # "cancelled")
            => /\ ~ret[t].success
               /\ ret[t].error = "time overlaps another appointment"
               /\ appointments = pre[t].appointments

(* C4: a valid candidate of an existing client that overlaps no            *)
(* appointment of its day that is not cancelled is accepted, back-to-back  *)
(* included.                                                               *)
C4_NonOverlappingAccepted ==
    \A t \in Tasks :
        (/\ Done(t, "add_appointment")
         /\ ValidCandidate(t)
         /\ call[t].args.client_id \in Ids(pre[t].clients)
         /\ \A a \in Overlapping(t) : a.status = "cancelled")
            => ret[t].success

(* C5: a valid candidate whose interval overlaps only cancelled            *)
(* appointments, and at least one, is accepted.                            *)
C5_CancelledSlotIsFree ==
    \A t \in Tasks :
        (/\ Done(t, "add_appointment")
         /\ ValidCandidate(t)
         /\ call[t].args.client_id \in Ids(pre[t].clients)
         /\ Overlapping(t) # {}
         /\ \A a \in Overlapping(t) : a.status = "cancelled")
            => ret[t].success

(* C6: for a completed or cancelled appointment, an update to a different  *)
(* status fails and the stored status stays.                               *)
C6_TerminalStatusIsFinal ==
    \A t \in Tasks :
        (/\ Done(t, "update_appointment_status")
         /\ call[t].args.status \in AppointmentStatus
         /\ \E a \in Targeted(t) :
                a.status \in {"completed", "cancelled"} /\ a.status # call[t].args.status)
            => /\ ~ret[t].success
               /\ appointments = pre[t].appointments

(* C7: from pending, an update to another status succeeds only for         *)
(* confirmed, cancelled and rescheduled.                                   *)
C7_PendingTargets ==
    \A t \in Tasks :
        (/\ Done(t, "update_appointment_status")
         /\ ret[t].success
         /\ \E a \in Targeted(t) : a.status = "pending" /\ a.status # call[t].args.status)
            => call[t].args.status \in {"confirmed", "cancelled", "rescheduled"}

(* C8: on an existing appointment, the update pending -> confirmed, then   *)
(* confirmed -> completed, then completed -> cancelled each returns        *)
(* success with no error, and get_appointment then returns the status      *)
(* just written.                                                           *)
FlowStep(from, to) ==
    \/ from = "pending" /\ to = "confirmed"
    \/ from = "confirmed" /\ to = "completed"
    \/ from = "completed" /\ to = "cancelled"

C8_StatusFlowSucceeds ==
    \A t \in Tasks :
        (/\ Done(t, "update_appointment_status")
         /\ \E a \in Targeted(t) : FlowStep(a.status, call[t].args.status))
            => /\ ret[t].success
               /\ ret[t].error = NoError
               /\ get_appointment(appointments, services, call[t].args.appointment_id) # {}
               /\ \A a \in get_appointment(appointments, services,
                                           call[t].args.appointment_id) :
                      a.status = call[t].args.status

C8_Witness ==
    \E t \in Tasks :
        /\ Done(t, "update_appointment_status")
        /\ \E a \in Targeted(t) : a.status = "completed"
        /\ call[t].args.status = "cancelled"
        /\ ret[t].success
        /\ \E a \in get_appointment(appointments, services, call[t].args.appointment_id) :
               a.status = "cancelled"

(* C9: an update of an appointment id that does not exist returns failure  *)
(* with an error and changes no appointment.                               *)
C9_UnknownIdFails ==
    \A t \in Tasks :
        (/\ Done(t, "update_appointment_status")
         /\ call[t].args.status \in AppointmentStatus
         /\ Targeted(t) = {})
            => /\ ~ret[t].success
               /\ ret[t].error # NoError
               /\ appointments = pre[t].appointments

(* C10: an update with a status that is no member of the enum is rejected  *)
(* with the validation error, whatever the appointment id and its current  *)
(* status, and the tables are unchanged.                                   *)
C10_UnknownStatusRejected ==
    \A t \in Tasks :
        (/\ Done(t, "update_appointment_status")
         /\ call[t].args.status \notin AppointmentStatus)
            => /\ ~ret[t].success
               /\ ret[t].error = "invalid status"
               /\ TablesUnchangedSince(t)

C10_Witness ==
    \E t \in Tasks :
        /\ Done(t, "update_appointment_status")
        /\ call[t].args.status \notin AppointmentStatus
        /\ \E a \in Targeted(t) : a.status = "confirmed"
        /\ ~ret[t].success
        /\ TablesUnchangedSince(t)

(* C11: a successful add_appointment stores exactly one new appointment,   *)
(* with status pending and the client, the resolved service and the time   *)
(* of the call, and it returns that appointment with the client_id, the    *)
(* resolved service_id and the appointment_time of the call.               *)
C11_Stores(t) ==
    (pc[t] = "insert" /\ pc'[t] = "commit")
        => /\ Len(appointments') = Len(appointments) + 1
           /\ SubSeq(appointments', 1, Len(appointments)) = appointments
           /\ LET new == appointments'[Len(appointments')]
              IN  /\ new.status = "pending"
                  /\ new.client_id = call[t].args.client_id
                  /\ new.service_id = NamedService(pre[t].services, call[t].args)
                  /\ new.appointment_time = call[t].args.appointment_time
                  /\ new.id \notin {a.id : a \in SeqToSet(appointments)}

C11_Returns(t) ==
    (pc[t] = "read" /\ pc'[t] = "done" /\ ret'[t].success)
        => /\ ret'[t].result.client_id = call[t].args.client_id
           /\ ret'[t].result.service_id = NamedService(pre[t].services, call[t].args)
           /\ ret'[t].result.appointment_time = call[t].args.appointment_time
           /\ ret'[t].result.id \notin Ids(pre[t].appointments)

C11_SuccessStoresAndReturnsPending ==
    [][\A t \in Tasks : C11_Stores(t) /\ C11_Returns(t)]_vars

(* C12: when add_appointment fails because a field fails validation, the   *)
(* service cannot be resolved, or the candidate overlaps an appointment    *)
(* that is not cancelled, nothing has been written: the appointments,      *)
(* clients, services and transactions are as they were before the call.    *)
C12_RejectedBecause(t) ==
    \/ validate_car_info(call[t].args.car_info) # NoError
    \/ validate_appointment_time(call[t].args.appointment_time, pre[t].now) # NoError
    \/ validate_comment(call[t].args.comment) # NoError
    \/ NamedService(pre[t].services, call[t].args) = NoneInt
    \/ ValidCandidate(t) /\ \E a \in Overlapping(t) : a.status # "cancelled"

C12_FailedBookingWritesNothing ==
    \A t \in Tasks :
        (/\ Done(t, "add_appointment")
         /\ ~ret[t].success
         /\ C12_RejectedBecause(t))
            => /\ TablesUnchangedSince(t)
               /\ committed = Database(pre[t].clients, pre[t].services,
                                       pre[t].appointments, pre[t].transactions)

C12_Witness ==
    \E t \in Tasks :
        /\ Done(t, "add_appointment")
        /\ ~ret[t].success
        /\ ValidCandidate(t)
        /\ \E a \in Overlapping(t) : a.status # "cancelled"
        /\ appointments # <<>>
        /\ TablesUnchangedSince(t)

(* C13: under every interleaving of add_client calls the table holds at    *)
(* most one client per telegram id; a call for an id that is already       *)
(* stored fails with the duplicate error and adds no row; and once no      *)
(* add_client is in progress the number of clients equals the number of    *)
(* add_client calls that returned success.                                 *)
C13_StoredFor(rows, telegram_id) == {c \in SeqToSet(rows) : c.telegram_id = telegram_id}

C13_ClientUniqueness ==
    /\ \A i, j \in Ids(clients) :
           clients[i].telegram_id = clients[j].telegram_id => i = j
    /\ \A t \in Tasks :
           (/\ Done(t, "add_client")
            /\ C13_StoredFor(pre[t].clients, call[t].args.telegram_id) # {})
               => /\ ~ret[t].success
                  /\ ret[t].error = "client already exists"
                  /\ C13_StoredFor(clients, call[t].args.telegram_id)
                         = C13_StoredFor(pre[t].clients, call[t].args.telegram_id)
    /\ client_successes <= Len(clients)
    /\ (\A t \in Tasks : call[t].op = "add_client" => pc[t] = "done")
           => Len(clients) = client_successes

C13_Witness ==
    \E t, u \in Tasks :
        /\ t # u
        /\ Done(t, "add_client") /\ Done(u, "add_client")
        /\ call[t].args.telegram_id = call[u].args.telegram_id
        /\ u \in call[t].during
        /\ ret[u].success
        /\ ~ret[t].success /\ ret[t].error = "client already exists"
        /\ Len(clients) = 1 /\ client_successes = 1

(* C14: under every sequence or interleaving of add_service calls no two   *)
(* stored services have the same name, and a call whose name is already    *)
(* stored fails with the duplicate error and stores nothing.               *)
C14_StoredAs(rows, name) == {v \in SeqToSet(rows) : v.name = name}

C14_ServiceNameUniqueness ==
    /\ \A i, j \in Ids(services) : services[i].name = services[j].name => i = j
    /\ \A t \in Tasks :
           (/\ Done(t, "add_service")
            /\ validate_service_name(call[t].args.name) = NoError
            /\ validate_service_description(call[t].args.description) = NoError
            /\ validate_service_duration(call[t].args.duration) = NoError
            /\ C14_StoredAs(pre[t].services, call[t].args.name) # {})
               => /\ ~ret[t].success
                  /\ ret[t].error = "service name already exists"
                  /\ C14_StoredAs(services, call[t].args.name)
                         = C14_StoredAs(pre[t].services, call[t].args.name)

(* C15: in every state each appointment's client_id and service_id name a  *)
(* stored client and service, and each transaction's appointment_id, when  *)
(* it has one, names a stored appointment; add_appointment with an unknown *)
(* client or service and add_transaction with an unknown appointment_id    *)
(* fail and insert nothing.                                                *)
C15_ReferentialIntegrity ==
    /\ \A a \in SeqToSet(appointments) :
           a.client_id \in Ids(clients) /\ a.service_id \in Ids(services)
    /\ \A x \in SeqToSet(transactions) :
           x.appointment_id # NoneInt => x.appointment_id \in Ids(appointments)
    /\ \A t \in Tasks :
           (/\ Done(t, "add_appointment")
            /\ \/ call[t].args.client_id \notin Ids(pre[t].clients)
               \/ NamedService(pre[t].services, call[t].args) = NoneInt)
               => /\ ~ret[t].success
                  /\ SeqToSet(appointments) \subseteq SeqToSet(pre[t].appointments)
    /\ \A t \in Tasks :
           (/\ Done(t, "add_transaction")
            /\ call[t].args.appointment_id # NoneInt
            /\ call[t].args.appointment_id \notin Ids(pre[t].appointments))
               => /\ ~ret[t].success
                  /\ SeqToSet(transactions) \subseteq SeqToSet(pre[t].transactions)

C15_Witness ==
    \E t \in Tasks :
        /\ Done(t, "add_transaction")
        /\ call[t].args.appointment_id # NoneInt
        /\ call[t].args.appointment_id \notin Ids(appointments)
        /\ ret[t].error = "appointment (appointment_id) not found"
        /\ \E x \in SeqToSet(transactions) : x.appointment_id \in Ids(appointments)
        /\ transactions = pre[t].transactions

(* C16: when a write (add_client, add_service, add_appointment,            *)
(* add_transaction, update_appointment_status) returns success, all of its *)
(* inserts and updates are committed: the tables are as of the last commit *)
(* and nothing is left for a later call to commit or for close() to lose.  *)
C16_WriteOps ==
    {"add_client", "add_service", "add_appointment", "add_transaction",
     "update_appointment_status"}

C16_SuccessfulWriteIsCommitted ==
    \A t \in Tasks :
        (pc[t] = "done" /\ call[t].op \in C16_WriteOps /\ ret[t].success)
            => committed = Database(clients, services, appointments, transactions)

(* C20: for every amount that validation accepts, the Transaction returned *)
(* by add_transaction, and the stored row that later reads return, carry   *)
(* an amount equal to the decimal value submitted.                         *)
C20_AmountRoundTrip ==
    \A t \in Tasks :
        (/\ Done(t, "add_transaction")
         /\ ret[t].success
         /\ validate_amount(call[t].args.amount) = NoError)
            => /\ ret[t].result.amount = Decimal(call[t].args.amount)
               /\ \A x \in RowsById(transactions, ret[t].result.id) :
                      x.amount = Decimal(call[t].args.amount)

(* C17: concurrent add_appointment calls of an existing client whose       *)
(* intervals overlap neither each other nor an appointment that is not     *)
(* cancelled all succeed, under every interleaving.                        *)
C17_Concurrent(t, u) == u \in call[t].during \/ t \in call[u].during

C17_Free(t) ==
    /\ Done(t, "add_appointment")
    /\ ValidCandidate(t)
    /\ call[t].args.client_id \in Ids(pre[t].clients)
    /\ \A a \in Overlapping(t) : a.status = "cancelled"

C17_ConcurrentNonOverlappingSucceed ==
    \A t, u \in Tasks :
        (/\ t # u
         /\ C17_Free(t) /\ C17_Free(u)
         /\ C17_Concurrent(t, u)
         /\ ~Overlap(services, Candidate(t), Candidate(u)))
            => ret[t].success /\ ret[u].success

(* C18: get_upcoming_appointments, when the storage layer does not fail,   *)
(* returns exactly the appointments whose status is pending or confirmed   *)
(* and whose appointment_time is later than now, each once: a new future   *)
(* appointment is among them, and it is not once it is cancelled or        *)
(* completed.                                                              *)
C18_Upcoming(t) ==
    {a.id : a \in {b \in SeqToSet(pre[t].appointments) :
                      /\ b.status \in {"pending", "confirmed"}
                      /\ b.appointment_time > pre[t].now}}

C18_UpcomingIsPendingOrConfirmedFuture ==
    \A t \in Tasks :
        (Done(t, "get_upcoming_appointments") /\ ~loc[t].fault)
            => /\ {r.id : r \in SeqToSet(ret[t].result)} = C18_Upcoming(t)
               /\ Len(ret[t].result) = Cardinality(C18_Upcoming(t))
               /\ \A r \in SeqToSet(ret[t].result) :
                      r \in get_appointment(pre[t].appointments, pre[t].services, r.id)

C18_Witness ==
    \E t \in Tasks :
        /\ Done(t, "get_upcoming_appointments") /\ ~loc[t].fault
        /\ ret[t].result # <<>>
        /\ \E a \in SeqToSet(pre[t].appointments) :
               /\ a.status \in {"cancelled", "completed"}
               /\ a.appointment_time > pre[t].now
               /\ a.id \notin {r.id : r \in SeqToSet(ret[t].result)}

(* C19: a read query returns an empty collection when nothing matches, and *)
(* it reports a failure of the storage layer as an error, so that the      *)
(* caller can tell 'no matching rows' from 'the read failed'.              *)
C19_ReadOps ==
    {"get_upcoming_appointments", "get_appointments_by_date_range",
     "get_transactions_by_date"}

C19_NothingMatches(t) ==
    IF call[t].op = "get_upcoming_appointments" THEN C18_Upcoming(t) = {}
    ELSE IF call[t].op = "get_appointments_by_date_range"
        THEN \A a \in SeqToSet(pre[t].appointments) :
                 \/ DateOf(a.appointment_time) < DateOf(call[t].args.start_date)
                 \/ DateOf(a.appointment_time) > DateOf(call[t].args.end_date)
    ELSE \A x \in SeqToSet(pre[t].transactions) :
             DateOf(x.created_at) # DateOf(call[t].args.date)

C19_ReadFailureIsReported ==
    \A t \in Tasks :
        (pc[t] = "done" /\ call[t].op \in C19_ReadOps)
            => /\ (~loc[t].fault /\ C19_NothingMatches(t))
                      => ret[t].success /\ ret[t].result = <<>>
               /\ loc[t].fault => ~ret[t].success /\ ret[t].error # NoError

----------------------------------------------------------------------------
(* C21: when the storage layer does not fail, get_daily_stats(date) reports *)
(* total, completed and cancelled as the numbers of the date's appointments *)
(* with any status, with status completed and with status cancelled;        *)
(* conversion as completed * 100 / total rounded to two places (0 without   *)
(* appointments, 100.00 for one completed out of one); income and expense   *)
(* as the sums of the amounts of the transactions linked to the date's      *)
(* appointments; and profit with profit + expense = income.                 *)

C21_OfDate(date) ==
    {a \in SeqToSet(appointments) : DateOf(a.appointment_time) = DateOf(date)}
RECURSIVE C21_Total(_)
C21_Total(txs) ==
    IF txs = {} THEN Number(FALSE, <<>>, <<>>)
    ELSE LET x == CHOOSE y \in txs : TRUE
         IN  DecimalAdd(x.amount, C21_Total(txs \ {x}))
C21_Linked(date, type) ==
    {x \in SeqToSet(transactions) :
        x.type = type /\ \E a \in C21_OfDate(date) : a.id = x.appointment_id}
C21_Reported(t) ==
    /\ Done(t, "get_daily_stats")
    /\ ~loc[t].fault
    /\ TablesUnchangedSince(t)
C21_DailyStats ==
    \A t \in Tasks : C21_Reported(t) =>
        LET r == ret[t].result
            day == C21_OfDate(call[t].args.date)
            completed == Cardinality({a \in day : a.status = "completed"})
        IN  /\ r.total = Cardinality(day)
            /\ r.completed = completed
            /\ r.cancelled = Cardinality({a \in day : a.status = "cancelled"})
            /\ day = {} => r.conversion = 0
            /\ day # {} =>
                   /\ 2 * (r.conversion * r.total - completed * 10000) <= r.total
                   /\ 2 * (completed * 10000 - r.conversion * r.total) <= r.total
            /\ (r.total = 1 /\ completed = 1) => r.conversion = 10000
            /\ r.income = C21_Total(C21_Linked(call[t].args.date, "income"))
            /\ r.expense = C21_Total(C21_Linked(call[t].args.date, "expense"))
            /\ DecimalAdd(r.profit, r.expense) = r.income

\* a day with one completed appointment out of one and a linked income, of
\* which the report says 100.00 percent and that income
C21_Witness ==
    \E t \in Tasks :
        /\ C21_Reported(t)
        /\ ret[t].result.total = 1 /\ ret[t].result.completed = 1
        /\ ret[t].result.conversion = 10000
        /\ C21_Linked(call[t].args.date, "income") # {}
        /\ ret[t].result.income # Number(FALSE, <<>>, <<>>)
        /\ ret[t].result.profit = ret[t].result.income

(* C22: get_popular_services(start, end, limit) returns one entry for each  *)
(* service with a completed appointment on the days from start to end, its  *)
(* count being the number of those appointments, in the order of falling    *)
(* counts and cut to the limit most frequent; a range with a completed      *)
(* appointment gives a list that is not empty.                              *)
C22_Completed(t) ==
    {a \in SeqToSet(appointments) :
        /\ a.status = "completed"
        /\ DateOf(a.appointment_time) >= DateOf(call[t].args.start_date)
        /\ DateOf(a.appointment_time) <= DateOf(call[t].args.end_date)}
C22_Count(t, id) == Cardinality({a \in C22_Completed(t) : a.service_id = id})

C22_PopularServices ==
    \A t \in Tasks :
        (Done(t, "get_popular_services") /\ ~loc[t].fault /\ TablesUnchangedSince(t)) =>
            LET r == ret[t].result
                ranked == {a.service_id : a \in C22_Completed(t)}
                listed == {r[i].service_id : i \in 1..Len(r)}
            IN  /\ listed \subseteq ranked
                /\ Len(r) = Cardinality(listed)
                /\ Len(r) = IF call[t].args.limit < Cardinality(ranked)
                                THEN call[t].args.limit ELSE Cardinality(ranked)
                /\ \A i \in 1..Len(r) : r[i].count = C22_Count(t, r[i].service_id)
                /\ \A i \in 1..Len(r) : \A j \in i..Len(r) : r[i].count >= r[j].count
                /\ \A id \in ranked \ listed :
                       \A i \in 1..Len(r) : r[i].count >= C22_Count(t, id)
                /\ C22_Completed(t) # {} => r # <<>>

(* C23: for start <= end, at any times of day, the report of                *)
(* get_period_stats(start, end) has one per-day entry for each calendar day *)
(* from the date of start to the date of end, and its totals (appointments, *)
(* completed, income, expense) are the sums of the per-day values.          *)
RECURSIVE C23_Count(_, _)
C23_Count(daily, field) ==
    IF DOMAIN daily = {} THEN 0
    ELSE LET d == CHOOSE e \in DOMAIN daily : TRUE
         IN  daily[d][field] + C23_Count([e \in DOMAIN daily \ {d} |-> daily[e]], field)
RECURSIVE C23_Amount(_, _)
C23_Amount(daily, field) ==
    IF DOMAIN daily = {} THEN Number(FALSE, <<>>, <<>>)
    ELSE LET d == CHOOSE e \in DOMAIN daily : TRUE
         IN  DecimalAdd(daily[d][field],
                        C23_Amount([e \in DOMAIN daily \ {d} |-> daily[e]], field))

C23_PeriodStatsConsistent ==
    \A t \in Tasks :
        (/\ Done(t, "get_period_stats") /\ ~loc[t].fault
         /\ call[t].args.start_date <= call[t].args.end_date) =>
            LET r == ret[t].result
            IN  /\ DOMAIN r.daily
                       = DateOf(call[t].args.start_date)..DateOf(call[t].args.end_date)
                /\ r.total.appointments = C23_Count(r.daily, "appointments")
                /\ r.total.completed = C23_Count(r.daily, "completed")
                /\ r.total.income = C23_Amount(r.daily, "income")
                /\ r.total.expense = C23_Amount(r.daily, "expense")

(* C24: add_appointment, through validate_appointment_time, accepts a time  *)
(* exactly when now + 1 hour <= time <= now + 90 days and the hour of the   *)
(* time is in [9, 20): a time outside is rejected with the validation error *)
(* of the time and nothing is stored, a time inside passes the validation   *)
(* and is booked when its day is free.                                      *)
C24_InWindow(time, clock) ==
    /\ clock + 60 <= time
    /\ time <= clock + 90 * 24 * 60
    /\ (time % (24 * 60)) \div 60 \in 9..19
C24_TimeErrors ==
    {"time must be in the future", "at least 1 hour ahead", "at most 3 months ahead",
     "only from 9:00 to 20:00"}
C24_Asked(t) ==
    /\ Done(t, "add_appointment")
    /\ validate_car_info(call[t].args.car_info) = NoError
    /\ validate_comment(call[t].args.comment) = NoError
    /\ NamedService(pre[t].services, call[t].args) # NoneInt
    /\ call[t].args.client_id \in Ids(pre[t].clients)

C24_TimeWindow ==
    /\ \A time \in WindowTimeInputs \cup TimeInputs :
           validate_appointment_time(time, now) = NoError <=> C24_InWindow(time, now)
    /\ \A t \in Tasks : C24_Asked(t) =>
           LET time == call[t].args.appointment_time
           IN  /\ ~C24_InWindow(time, pre[t].now) =>
                      /\ ~ret[t].success
                      /\ ret[t].error \in C24_TimeErrors
                      /\ TablesUnchangedSince(t)
               /\ C24_InWindow(time, pre[t].now) =>
                      /\ ret[t].error \notin C24_TimeErrors
                      /\ (\A a \in SeqToSet(pre[t].appointments) :
                              DateOf(a.appointment_time) # DateOf(time))
                             => /\ ret[t].success
                                /\ \E a \in SeqToSet(appointments) :
                                       a.appointment_time = time

\* a booking asked for exactly one hour ahead is stored
C24_Witness ==
    \E t \in Tasks :
        /\ C24_Asked(t)
        /\ call[t].args.appointment_time = pre[t].now + 60
        /\ ret[t].success
        /\ \E a \in SeqToSet(appointments) :
               a.appointment_time = call[t].args.appointment_time

(* C29: add_client validates its fields: a call for a telegram id that is   *)
(* not stored yet, with a name or a phone that validate_name or             *)
(* validate_phone rejects, fails with that validation error and stores no   *)
(* client.                                                                  *)
C29_Invalid(t) ==
    \/ validate_name(call[t].args.name) # NoError
    \/ validate_phone(call[t].args.phone) # NoError

C29_AddClientValidates ==
    \A t \in Tasks :
        (/\ Done(t, "add_client")
         /\ GET_BY_TELEGRAM_ID(pre[t].clients, call[t].args.telegram_id) = {}
         /\ C29_Invalid(t)) =>
            /\ ~ret[t].success
            /\ ret[t].error \in {validate_name(call[t].args.name),
                                 validate_phone(call[t].args.phone)} \ {NoError}
            /\ \A c \in SeqToSet(clients) :
                   ~(c.name = call[t].args.name /\ c.phone = call[t].args.phone)

(* C25: validation is a pure function of its input: for every validator,   *)
(* validating the same value at any two moments, with any store operations  *)
(* in between, gives the same verdict, so a value that was once valid never *)
(* fails re-validation.                                                     *)
C25_Verdicts ==
    [phone |-> [a \in ClientInputs |-> validate_phone(a.phone)],
     name |-> [a \in ClientInputs |-> validate_name(a.name)],
     amount |-> [x \in AmountInputs |-> validate_amount(x)],
     type_ |-> [x \in TransactionTypeInputs |-> validate_transaction_type(x)],
     category |-> [x \in CategoryInputs |-> validate_category(x)],
     service_name |-> [x \in ServiceNameInputs |-> validate_service_name(x)],
     description |-> [x \in ServiceDescriptionInputs |-> validate_service_description(x)],
     duration |-> [x \in DurationInputs |-> validate_service_duration(x)]]

\* the validators of a booking's fields
C25_BookingVerdicts ==
    [car_info |-> [x \in CarInfoInputs |-> validate_car_info(x)],
     comment |-> [x \in CommentInputs |-> validate_comment(x)],
     status |-> [x \in {s.value : s \in StatusInputs} |-> validate_status(x)]]

C25_TimeVerdicts == [x \in WindowTimeInputs |-> validate_appointment_time(x, now)]

C27_Raises(t) ==
    /\ pc'[t] = "done"
    /\ ret'[t] = Failure("RuntimeError: Database not initialized")

C27_Reopened(t) ==
    /\ Done(t, "add_client")
    /\ pre[t].connects > 1
    /\ GET_BY_TELEGRAM_ID(pre[t].clients, call[t].args.telegram_id) = {}

C27_Usable(t) ==
    /\ ret[t].success
    /\ ret[t].result \in SeqToSet(clients)
    /\ ret[t].result \in SeqToSet(committed.clients)
    /\ ret[t].result.telegram_id = call[t].args.telegram_id

C27_Lifecycle ==
    [][/\ ~conn =>
            /\ <<clients, services, appointments, transactions, committed>>'
                   = <<clients, services, appointments, transactions, committed>>
            /\ \A t \in Tasks : (pc[t] = "idle" /\ pc'[t] # "idle") => C27_Raises(t)
       /\ \A t \in Tasks : C27_Reopened(t) => C27_Usable(t)]_vars

\* the connection was opened, closed and opened again, and an add_client
\* called after that for a new id has succeeded
C27_Witness ==
    \E t \in Tasks :
        /\ C27_Reopened(t)
        /\ C27_Usable(t)
        /\ connects = MaxConnects

(* C28: missing one cycle of the periodic reminder task only delays a      *)
(* reminder: when at most one cycle was skipped or failed, every 24-hour   *)
(* and 2-hour reminder that was due has been sent by the time its window   *)
(* is over.  The appointments were all booked before the first cycle, and  *)
(* before their windows opened.                                            *)
C28_Sent(a, hours) ==
    \E i \in 1..Len(sent) :
        sent[i].appointment_id = a.id /\ sent[i].hours_before = hours

\* the latest moment of the window of a reminder is past
C28_Over(a, hours) == 2 * (a.appointment_time - now) < (2 * hours - 1) * HourMinutes

\* the reminder is due: its window had not begun when the task started
C28_Due(a, hours) ==
    /\ a.status # "cancelled"
    /\ 2 * (a.appointment_time - NowStart) > (2 * hours + 1) * HourMinutes

C28_MissedCycleOnlyDelays ==
    task.missed <= 1 =>
        \A a \in SeqToSet(appointments), hours \in {2, 24} :
            (C28_Due(a, hours) /\ C28_Over(a, hours)) => C28_Sent(a, hours)

(* C30: the same-calendar-day search window misses no conflict: any two    *)
(* appointments that validation admits (start hour in [9, 20), service     *)
(* duration between 15 and 480 minutes) and that start on different        *)
(* calendar dates have intervals [time, time + duration) that do not       *)
(* overlap.                                                                *)
C30_Admitted(time, duration) ==
    /\ validate_appointment_time(time, now) = NoError
    /\ validate_service_duration(duration) = NoError

\* the values validation admits, taken by themselves
C30_AdmittedDisjoint ==
    \A t1, t2 \in OvernightTimeInputs, d1, d2 \in OvernightDurationInputs \cup DurationInputs :
        (/\ C30_Admitted(t1, d1) /\ C30_Admitted(t2, d2)
         /\ DateOf(t1) # DateOf(t2)) =>
            ~(t1 < t2 + d2 /\ t1 + d1 > t2)

\* the appointments add_appointment has stored
C30_StoredDisjoint ==
    \A a, b \in SeqToSet(appointments) :
        (/\ a.service_id \in Ids(services) /\ b.service_id \in Ids(services)
         /\ DateOf(a.appointment_time) # DateOf(b.appointment_time)) =>
            ~Overlap(services, a, b)

C30_OtherDaysNeverOverlap == C30_AdmittedDisjoint /\ C30_StoredDisjoint

\* a booking at 19:59 for the longest service, which ends at 3:59, and a
\* booking at 9:00 of the next day are both stored
C30_Witness ==
    \E a, b \in SeqToSet(appointments) :
        /\ a.appointment_time = At(0, 19, 59)
        /\ b.appointment_time = At(1, 9, 0)
        /\ Duration(services, a) = MaxServiceDuration
        /\ DateOf(a.appointment_time + Duration(services, a)) = DateOf(b.appointment_time)

----------------------------------------------------------------------------
(* C31: add_appointment performs its checks in the order service            *)
(* resolution, field validation, conflict check, and the first failing      *)
(* check determines the error: a call that names a service that is not      *)
(* stored fails with a service-not-found error, also when its car_info or   *)
(* its appointment_time is invalid.                                         *)
C31_UnknownService(t) ==
    /\ Done(t, "add_appointment")
    /\ call[t].args.service_id # NoneInt \/ call[t].args.service_type # NoneStr
    /\ NamedService(pre[t].services, call[t].args) = NoneInt
    /\ services = pre[t].services

C31_ServiceResolvedFirst ==
    \A t \in Tasks :
        C31_UnknownService(t) =>
            /\ ~ret[t].success
            /\ ret[t].error \in {"service (ID) not found", "service (name) not found",
                                 "service not found"}

----------------------------------------------------------------------------
(* C32: frame of a status change: a successful update_appointment_status    *)
(* changes only the status field of the targeted appointment; its time,     *)
(* service, client, car_info and comment, every other appointment, and all  *)
(* clients, services, settings and transactions are unchanged: completing   *)
(* an appointment creates no transaction.                                   *)
C32_Updated(t) == Done(t, "update_appointment_status") /\ ret[t].success

C32_StatusChangeFrame ==
    \A t \in Tasks :
        C32_Updated(t) =>
            /\ Len(appointments) = Len(pre[t].appointments)
            /\ \A i \in 1..Len(appointments) :
                   appointments[i] =
                       IF pre[t].appointments[i].id = call[t].args.appointment_id
                           THEN [pre[t].appointments[i] EXCEPT !.status = call[t].args.status]
                           ELSE pre[t].appointments[i]
            /\ clients = pre[t].clients
            /\ services = pre[t].services
            /\ settings = pre[t].settings
            /\ transactions = pre[t].transactions

\* of two appointments one has been completed, the other is as it was, and
\* the payments are the ones recorded before
C32_Witness ==
    \E t \in Tasks :
        /\ C32_Updated(t)
        /\ call[t].args.status = "completed"
        /\ Len(appointments) = 2
        /\ transactions # <<>>
        /\ \E i, j \in 1..Len(appointments) :
               /\ appointments[i].status = "completed"
               /\ pre[t].appointments[i].status = "pending"
               /\ appointments[j].status = "pending"

----------------------------------------------------------------------------
(* C33: in one run of check_and_send_reminders a reminder is sent for an    *)
(* appointment only if the appointment is not cancelled, its client is      *)
(* known, and the time until it is within 23.5 to 24.5 hours (24-hour       *)
(* reminder) or within 1.5 to 2.5 hours (2-hour reminder); for every other  *)
(* appointment no message is sent, and the store is not modified.           *)

\* the time until the appointment, at the clock's reading, is within half an
\* hour of the given number of hours
C33_Within(a, hours, clock) ==
    /\ 2 * (a.appointment_time - clock) >= (2 * hours - 1) * HourMinutes
    /\ 2 * (a.appointment_time - clock) <= (2 * hours + 1) * HourMinutes

\* the message is a reminder that the run may send
C33_Allowed(m) ==
    \E i \in 1..Len(appointments) :
        LET a == appointments[i]
        IN  /\ a.id = m.appointment_id
            /\ a.status # "cancelled"
            /\ a.client_id \in Ids(clients)
            /\ clients[a.client_id].telegram_id = m.chat_id
            /\ m.hours_before \in {2, 24}
            /\ C33_Within(a, m.hours_before, now)

C33_OnlyDueReminders ==
    [][/\ Len(sent') >= Len(sent)
       /\ SubSeq(sent', 1, Len(sent)) = sent
       /\ \A i \in (Len(sent) + 1)..Len(sent') : C33_Allowed(sent'[i])
       /\ task'.cycles # task.cycles =>
              /\ Database(clients', services', appointments', transactions')
                     = Database(clients, services, appointments, transactions)
              /\ committed' = committed
              /\ settings' = settings]_vars

\* a completed scan has sent a reminder for one appointment and none for a
\* cancelled one that was within the 2-hour window at that scan
C33_Witness ==
    /\ task.asleep /\ task.missed = 0
    /\ \E i, j \in 1..Len(appointments) :
           /\ appointments[i].status = "cancelled"
           /\ appointments[j].status # "cancelled"
           /\ \E k \in 1..Len(sent) :
                  /\ sent[k].appointment_id = appointments[j].id
                  /\ C33_Within(appointments[i], 2, sent[k].at)
           /\ \A k \in 1..Len(sent) : sent[k].appointment_id # appointments[i].id

----------------------------------------------------------------------------
(* C39: across the successive cycles of the periodic reminder task (one     *)
(* scan every 30 minutes), a given appointment receives the 24-hour         *)
(* reminder at most once and the 2-hour reminder at most once.              *)
C39_AtMostOnce ==
    \A i, j \in 1..Len(sent) :
        (sent[i].appointment_id = sent[j].appointment_id
            /\ sent[i].hours_before = sent[j].hours_before) => i = j

----------------------------------------------------------------------------
(* C34: recoverable failures never abort the booking conversation: when an  *)
(* input fails validation (name, phone, car info) the conversation stays in *)
(* the same input state and re-prompts, and when add_appointment fails at   *)
(* the confirmation step (for example with a scheduling conflict) the       *)
(* conversation returns the user to choosing another slot instead of        *)
(* clearing its state.                                                      *)

\* the step is the handler's taking of a failed add_appointment
C34_BookingFailed(t) ==
    /\ state = "CONFIRM_APPOINTMENT"
    /\ Done(t, "add_appointment") /\ ~ret[t].success
    /\ pc'[t] = "idle"

C34_FailuresKeepConversation ==
    [][/\ reply' \in {"invalid name", "invalid phone", "invalid car_info"} =>
              state' = state /\ data' = data
       /\ \A t \in HandlerTasks :
              C34_BookingFailed(t) =>
                  /\ state' \in {"SELECT_DATE", "SELECT_TIME"}
                  /\ data'.appointment.service_id = data.appointment.service_id]_vars

\* the part on inputs that fail validation
C34_InvalidInputReprompts ==
    [][reply' \in {"invalid name", "invalid phone", "invalid car_info"} =>
           state' = state /\ data' = data]_vars

----------------------------------------------------------------------------
(* C35: under any interleaving of add_appointment, add_service and          *)
(* add_transaction calls on one store, the entity returned by a successful  *)
(* call is the row that this call inserted (for add_appointment: the same   *)
(* client, service and appointment_time as the call's arguments), never a   *)
(* row inserted by a concurrent call.                                       *)
C35_ReturnsOwnRow ==
    \A t \in Tasks :
        /\ (Done(t, "add_service") /\ ret[t].success) =>
               /\ ret[t].result.id = loc[t].inserted
               /\ ret[t].result.name = call[t].args.name
        /\ (Done(t, "add_appointment") /\ ret[t].success) =>
               /\ ret[t].result.id = loc[t].inserted
               /\ ret[t].result.client_id = call[t].args.client_id
               /\ ret[t].result.service_id = loc[t].service_id
               /\ ret[t].result.appointment_time = call[t].args.appointment_time

----------------------------------------------------------------------------
(* C36: failure means nothing was written: whenever add_appointment returns *)
(* success=false, on any of its failure paths and under any interleaving    *)
(* with other store calls, the store contains no appointment row inserted   *)
(* by that call.                                                            *)
C36_FailureWritesNothing ==
    \A t \in Tasks :
        (Done(t, "add_appointment") /\ ~ret[t].success) =>
            \A i \in 1..Len(appointments) : appointments[i].id # loc[t].inserted

----------------------------------------------------------------------------
(* C37: if the same-day lookup performed for add_appointment's conflict     *)
(* check fails at the storage layer, add_appointment does not insert the    *)
(* appointment (a failed lookup is never treated as 'no existing            *)
(* appointments').                                                          *)
C37_FailedLookupInsertsNothing ==
    \A t \in Tasks :
        (Done(t, "add_appointment") /\ loc[t].fault) =>
            /\ ~ret[t].success
            /\ appointments = pre[t].appointments

----------------------------------------------------------------------------
(* C38: settings are durable across restarts: after update_setting of the   *)
(* key "contacts" to v succeeds, get_setting("contacts") returns v until    *)
(* the next update_setting of that key, also after close() followed by      *)
(* init_db() on the same database; initialization seeds the default         *)
(* contact text only when the key has no row.                               *)
C38_Stored(table) == IF "contacts" \in DOMAIN table THEN table["contacts"] ELSE "None"

\* the step is a call of op, by task t, that returns at once
C38_Calls(t, op) == pc[t] = "idle" /\ pc'[t] = "done" /\ call'[t].op = op

C38_SettingsAreDurable ==
    [][/\ \A t \in Tasks :
              (C38_Calls(t, "update_setting") /\ ret'[t].success
                  /\ call'[t].args.key = "contacts") =>
                      C38_Stored(settings') = call'[t].args.value
       /\ \A t \in Tasks :
              (C38_Calls(t, "get_setting") /\ ~loc'[t].fault
                  /\ call'[t].args.key = "contacts") =>
                      ret'[t].result = C38_Stored(settings)
       /\ (C38_Stored(settings) # "None" /\ C38_Stored(settings') # C38_Stored(settings)) =>
              \E t \in Tasks :
                  C38_Calls(t, "update_setting") /\ call'[t].args.key = "contacts"]_vars

----------------------------------------------------------------------------
(* C40: rate limit: for each user, among the text messages arriving in the  *)
(* guarded input states (phone, payment amount, service price), the         *)
(* downstream handler is invoked for at most rate_limit (5) of them within  *)
(* any window of reset_timeout (300 seconds); one user's attempts never     *)
(* count against another user.                                              *)

\* the messages of the user for which the handler was invoked, from the given
\* time on and less than reset_timeout after it
C40_Invoked(user_id, from) ==
    {j \in 1..Len(handled) :
        /\ handled[j].user_id = user_id /\ handled[j].invoked
        /\ from <= handled[j].at /\ handled[j].at < from + ResetTimeout}

C40_RateLimitPerUser ==
    \A i \in 1..Len(handled) :
        LET m == handled[i]
        IN  /\ Cardinality(C40_Invoked(m.user_id, m.at)) <= RateLimit
            /\ ~m.invoked =>
                   Cardinality({j \in C40_Invoked(m.user_id, m.at - ResetTimeout + 1) :
                                   j < i}) = RateLimit

\* a user's sixth message is refused and, in the same minute, the handler is
\* invoked for the other user
C40_Witness ==
    \E i, j \in 1..Len(handled) :
        /\ i < j
        /\ ~handled[i].invoked /\ handled[j].invoked
        /\ handled[i].user_id # handled[j].user_id
        /\ handled[i].at = handled[j].at
        /\ attempts[handled[j].user_id] # <<>>
====
